---- MODULE Spec2Model ----
(***************************************************************************)
(* A model of gocacheprog-s3: DiskCache (disk.go), the DiskAsyncS3Cache    *)
(* that wraps it with an S3 tier written by a worker pool, and the Counts  *)
(* both keep.  Strings, file contents and object bodies are sequences of   *)
(* one-character strings; the directory is a partial function from path to *)
(* content, the bucket a partial function from key to object.              *)
(***************************************************************************)
EXTENDS Integers, Sequences, FiniteSets, TLC

\* ------------------------------------------------------------ bounds
\* client calls (Get/Put) made after Start
MaxOps == 2
\* environment faults injected in one behaviour (I/O errors, remote errors)
MaxFaults == 1
\* largest queue capacity (queueLen) and worker count (nWorkers) explored
MaxQueueLen == 1
MaxWorkers == 2
\* elements io.Copy moves in one step
CopyChunk == 2

\* ------------------------------------------------------------ values
Clients == {"1", "2"}
Workers == 1..MaxWorkers

ActionIDs == {<<"a">>, <<"b">>}

\* the (outputID, size, body) a Put is called with: a blob and its hex
\* outputID; size 0 with a body supplied; a body shorter than the declared
\* size; outputIDs that are not hex, with and without content; the empty
\* outputID
PutArgs ==
    {[o |-> <<"0", "a">>, size |-> 1, body |-> <<"x">>],
     [o |-> <<"0", "a">>, size |-> 0, body |-> <<"x">>],
     [o |-> <<"0", "a">>, size |-> 1, body |-> <<>>],
     [o |-> <<"z">>, size |-> 1, body |-> <<"x">>],
     [o |-> <<"z">>, size |-> 0, body |-> <<>>],
     [o |-> <<>>, size |-> 1, body |-> <<"x">>]}

s3Prefix == <<"g">>
outputIDMetadataKey == "outputid"
probePath == <<"_", "p", "r", "o", "b", "e">>

NoErr == "nil"

\* ------------------------------------------------------------ strings
HexDigits == {"0", "1", "2", "3", "4", "5", "6", "7", "8", "9",
              "a", "b", "c", "d", "e", "f", "A", "B", "C", "D", "E", "F"}

\* a check that lets every string pass
hexDecodeAny(s) == TRUE

\* hex.DecodeString(s) succeeds: every character is a hex digit and the
\* length is even
hexDecodeOK(s) ==
    /\ \A i \in 1..Len(s) : s[i] \in HexDigits
    /\ Len(s) % 2 = 0

DecDigits == <<"0", "1", "2", "3", "4", "5", "6", "7", "8", "9">>

\* the decimal digit of a small number, and back (-1: not a digit)
DigitOf(n) == DecDigits[n + 1]

NumOf(ch) ==
    IF \E n \in 0..9 : DecDigits[n + 1] = ch
    THEN CHOOSE n \in 0..9 : DecDigits[n + 1] = ch
    ELSE -1

\* fmt.Sprintf("a-%s", actionID) and fmt.Sprintf("o-%s", outputID) joined to
\* the directory (one flat directory: the directory part is left out)
IndexPath(actionID) == <<"a", "-">> \o actionID

BlobPath(outputID) == <<"o", "-">> \o outputID

\* a writer that writes into the destination itself
TempPathInPlace(dest, c) == dest

\* the name os.CreateTemp(dir, base+".*") gives: dest, a dot, a suffix no
\* other caller holds (the caller's own name)
TempPath(dest, c) == dest \o <<".", c>>

\* c.actionKey: fmt.Sprintf("%s/%s", c.s3Prefix, actionID)
actionKey(actionID) == s3Prefix \o <<"/">> \o actionID

\* probeStr := c.s3Prefix + "/" + probePath
probeStr == s3Prefix \o <<"/">> \o probePath

\* ------------------------------------------------------------ index entry
\* json.Marshal(indexEntry{Version, OutputID, Size, TimeNanos}): the object
\* {v,o,n}; the time stamp is not modelled
jsonMarshal(ie) ==
    <<"{", DigitOf(ie.v), ",">> \o ie.o \o <<",", DigitOf(ie.n), "}">>

\* json.Unmarshal(ij, &ie) succeeds
jsonValid(ij) ==
    /\ Len(ij) >= 6
    /\ ij[1] = "{"
    /\ NumOf(ij[2]) >= 0
    /\ ij[3] = ","
    /\ ij[Len(ij) - 2] = ","
    /\ NumOf(ij[Len(ij) - 1]) >= 0
    /\ ij[Len(ij)] = "}"
    /\ \A i \in 4..(Len(ij) - 3) : ij[i] \notin {"{", "}", ","}

\* the indexEntry json.Unmarshal yields on a valid file
jsonUnmarshal(ij) ==
    [v |-> NumOf(ij[2]),
     o |-> SubSeq(ij, 4, Len(ij) - 3),
     n |-> NumOf(ij[Len(ij) - 1])]

\* ------------------------------------------------------------ files
Exists(f, p) == p \in DOMAIN f

\* the directory with file p holding data (created or replaced)
WriteFile(f, p, data) ==
    [q \in (DOMAIN f) \cup {p} |-> IF q = p THEN data ELSE f[q]]

\* the directory without file p
RemoveFile(f, p) == [q \in (DOMAIN f) \ {p} |-> f[q]]

\* os.Rename(from, to): to holds from's content, from is gone
RenameFile(f, from, to) == RemoveFile(WriteFile(f, to, f[from]), from)

Min(a, b) == IF a < b THEN a ELSE b

\* ------------------------------------------------------------ counters
ZeroCounts ==
    [gets |-> 0, hits |-> 0, misses |-> 0, puts |-> 0, getErrors |-> 0,
     putErrors |-> 0, totalGetBytes |-> 0, totalGetDur |-> 0,
     totalPutBytes |-> 0]

Add(cnt, field, n) == [cnt EXCEPT ![field] = @ + n]

\* ------------------------------------------------------------ DiskCache.Get
\* What DiskCache.Get returns on directory f, and the counter it adds to
\* beside gets; ioerr: os.ReadFile fails for a reason other than absence
diskGet(f, actionID, ioerr) ==
    LET actionFile == IndexPath(actionID)
        miss(cnt, e) == [outputID |-> <<>>, diskPath |-> <<>>, err |-> e,
                         count |-> cnt]
    IN  IF ioerr THEN miss("getErrors", "io")
        ELSE IF ~Exists(f, actionFile) THEN miss("misses", NoErr)
        ELSE IF ~jsonValid(f[actionFile]) THEN miss("getErrors", NoErr)
        ELSE IF ~hexDecodeOK(jsonUnmarshal(f[actionFile]).o)
             THEN miss("getErrors", NoErr)
        ELSE [outputID |-> jsonUnmarshal(f[actionFile]).o,
              diskPath |-> BlobPath(jsonUnmarshal(f[actionFile]).o),
              err |-> NoErr, count |-> "hits"]

\* ------------------------------------------------------------ the S3 client
\* An error value of the S3 client: api (it is a smithy.APIError), its code
\* and the words of its message; NoS3Err is the nil error
NoS3Err == [isErr |-> FALSE, api |-> FALSE, code |-> "", msg |-> <<>>]

S3Err(api, code, msg) == [isErr |-> TRUE, api |-> api, code |-> code, msg |-> msg]

ErrNoSuchKey == S3Err(TRUE, "NoSuchKey", <<"not", "found">>)
ErrAccessDenied == S3Err(TRUE, "AccessDenied", <<"Access", "Denied">>)
ErrSignature == S3Err(TRUE, "AccessDenied", <<"SignatureDoesNotMatch">>)
ErrInternal == S3Err(TRUE, "InternalError", <<"internal">>)
ErrTransport == S3Err(FALSE, "", <<"connection", "reset">>)

\* strings.Contains(ae.Error(), word)
Contains(msg, word) == \E i \in 1..Len(msg) : msg[i] = word

\* a classification that takes every AccessDenied for not found
isS3NotFoundLenient(err) ==
    err.isErr /\ err.api /\ err.code \in {"NoSuchKey", "AccessDenied"}

\* a classification that takes only NoSuchKey for not found
isS3NotFoundStrict(err) == err.isErr /\ err.api /\ err.code = "NoSuchKey"

isS3NotFoundError(err) ==
    IF err.isErr /\ err.api
    THEN IF err.code = "NoSuchKey" THEN TRUE
         ELSE IF err.code = "AccessDenied"
              THEN ~Contains(err.msg, "SignatureDoesNotMatch")
              ELSE FALSE
    ELSE FALSE

\* An object of the bucket: its body, the ContentLength it was put with and
\* its metadata (a partial function from metadata key to value)
Object(body, len, meta) == [body |-> body, len |-> len, meta |-> meta]

MetaOf(outputID) == [k \in {outputIDMetadataKey} |-> outputID]

NoMeta == [k \in {} |-> <<>>]

NoObject == Object(<<>>, 0, NoMeta)

\* Durations of a remote read, in half milliseconds
Durs == {1, 2}

\* time.Duration.Milliseconds(): whole milliseconds, truncated
Milliseconds(dur) == dur \div 2

\* What GetObject may answer for key on bucket r: the object when it is
\* there, NoSuchKey or AccessDenied when it is not, and, as an injected
\* fault (mayFault), an error or a wrong ContentLength
GetResponses(r, key, mayFault) ==
    (IF key \in DOMAIN r
     THEN {[err |-> NoS3Err, obj |-> r[key], fault |-> FALSE]}
     ELSE {[err |-> e, obj |-> NoObject, fault |-> FALSE] :
              e \in {ErrNoSuchKey, ErrAccessDenied}})
    \cup
    (IF mayFault
     THEN {[err |-> e, obj |-> NoObject, fault |-> TRUE] :
              e \in {ErrAccessDenied, ErrSignature, ErrInternal, ErrTransport}}
          \cup (IF key \in DOMAIN r
                THEN {[err |-> NoS3Err,
                       obj |-> [r[key] EXCEPT !.len = @ + 1],
                       fault |-> TRUE]}
                ELSE {})
     ELSE {})

\* ------------------------------------------------------------ s3Get
\* a metadata check that asks for the key only
HasOutputIDKey(meta) == outputIDMetadataKey \in DOMAIN meta

\* the object's metadata carries an outputid: the key is there and its
\* value is not empty
HasOutputID(meta) ==
    /\ outputIDMetadataKey \in DOMAIN meta
    /\ meta[outputIDMetadataKey] # <<>>

\* What s3Get returns on GetObject's answer resp after dur, the counter it
\* adds to beside gets, and whether it panics (the bytes-per-ms log line
\* divides by dur.Milliseconds())
s3Get(resp, dur) ==
    LET fail(cnt, e) == [outputID |-> <<>>, size |-> 0, body |-> <<>>,
                         err |-> e, count |-> cnt, panic |-> FALSE]
    IN  IF isS3NotFoundError(resp.err) THEN fail("misses", NoErr)
        ELSE IF resp.err.isErr THEN fail("getErrors", "s3get")
        ELSE IF ~HasOutputID(resp.obj.meta) THEN fail("getErrors", "nometa")
        ELSE [outputID |-> resp.obj.meta[outputIDMetadataKey],
              size |-> resp.obj.len, body |-> resp.obj.body,
              err |-> NoErr, count |-> "hits",
              panic |-> (Milliseconds(dur) = 0)]

\* the remote counters after s3Get counted its call, GetObject not yet
\* called
s3GetCalled(cnt) == Add(cnt, "gets", 1)

\* the remote counters after GetObject answered and s3Get returned res
s3GetCounts(cnt, res, dur) ==
    IF res.count = "hits"
    THEN Add(Add(Add(cnt, "totalGetBytes", res.size), "totalGetDur", dur),
             "hits", 1)
    ELSE Add(cnt, res.count, 1)

\* ------------------------------------------------------------ s3Put
\* the body s3Put hands to PutObject: an empty reader when size is 0
s3PutBody(size, body) == IF size = 0 THEN <<>> ELSE body

\* PutObject fails when the transport finds the body's length differs from
\* the declared ContentLength
PutObjectRejects(size, body) == Len(s3PutBody(size, body)) # size

\* an s3Put that stores the actionID as the outputid metadata
s3PutRemoteSwapped(r, actionID, outputID, size, body) ==
    WriteFile(r, actionKey(actionID),
              Object(s3PutBody(size, body), size, MetaOf(actionID)))

\* the bucket after a successful s3Put
s3PutRemote(r, actionID, outputID, size, body) ==
    WriteFile(r, actionKey(actionID),
              Object(s3PutBody(size, body), size, MetaOf(outputID)))

\* the remote counters after s3Put counted its call, PutObject not yet
\* called
s3PutCalled(cnt) == Add(cnt, "puts", 1)

\* counters that take a failed s3Put out of puts again
s3PutCountsSplit(cnt, size, ok) ==
    IF ok THEN Add(cnt, "totalPutBytes", size)
    ELSE Add(Add(cnt, "puts", -1), "putErrors", 1)

\* the remote counters after PutObject answered (ok: it returned no error)
s3PutCounts(cnt, size, ok) ==
    IF ok THEN Add(cnt, "totalPutBytes", size)
    ELSE Add(cnt, "putErrors", 1)

\* ------------------------------------------------------------ state
VARIABLES
    proc,       \* "running", or how the process ended: "fatal" (log.Fatal), "panic"
    dstarted,   \* DiskCache.started
    dcounts,    \* DiskCache.Counts
    fs,         \* the cache directory: path -> content
    started,    \* DiskAsyncS3Cache.started
    rcounts,    \* DiskAsyncS3Cache.Counts
    remote,     \* the bucket: key -> object
    work,       \* the items buffered in the channel c.work
    closed,     \* c.work has been closed
    queueLen,   \* the channel's capacity
    nWorkers,   \* c.nWorkers
    wpc,        \* each worker goroutine's position
    witem,      \* the putWork a worker holds
    wbody,      \* the file a worker has opened
    cancelled,  \* the context given to Start is done
    faults,     \* environment faults injected so far
    pc,         \* each caller's position
    loc,        \* each caller's call and its local variables
    ret,        \* what each caller's last call returned
    ops,        \* Get and Put calls made so far
    hist        \* history of the run: what the properties are stated over

vars == <<proc, dstarted, dcounts, fs, started, rcounts, remote, work, closed,
          queueLen, nWorkers, wpc, witem, wbody, cancelled, faults, pc, loc,
          ret, ops, hist>>

\* a putWork
PutWork(actionID, outputID, size, diskPath) ==
    [actionID |-> actionID, outputID |-> outputID, size |-> size,
     diskPath |-> diskPath]

NoWork == PutWork(<<>>, <<>>, 0, <<>>)

\* A worker's file: none (an empty reader); or the file os.Open returned,
\* which is the file at the path (linked) or, once another file was renamed
\* onto the path, a file of no name that holds data. Once PutObject has
\* read the file, data is what it read and the file is looked at no more
NoFile == [linked |-> FALSE, data |-> <<>>]

OpenedFile == [linked |-> TRUE, data |-> <<>>]

\* The Put a call refers to: for a Put its own outputID, size and body as
\* supplied; for a Get the last successful Put on its actionID whose size
\* was the length of its body, if there is one (set)
NoRef == [set |-> FALSE, o |-> <<>>, size |-> 0, b |-> <<>>]

PutRef(outputID, size, body) ==
    [set |-> TRUE, o |-> outputID, size |-> size, b |-> body]

NoLoc ==
    [op |-> "none", a |-> <<>>, o |-> <<>>, size |-> 0, body |-> <<>>,
     kind |-> "", dest |-> <<>>, src |-> <<>>, sz |-> 0, ref |-> NoRef,
     faulted |-> FALSE]

\* What a call returned; ctxDone: the context was done when it returned;
\* faulted: the environment injected a fault into one of the call's own steps
Ret(op, a, outputID, diskPath, err, ref) ==
    [op |-> op, a |-> a, outputID |-> outputID, diskPath |-> diskPath,
     err |-> err, ref |-> ref, ctxDone |-> cancelled, faulted |-> FALSE]

Faulted(r, b) == [r EXCEPT !.faulted = b]

NoRet == [op |-> "none", a |-> <<>>, outputID |-> <<>>, diskPath |-> <<>>,
          err |-> NoErr, ref |-> NoRef, ctxDone |-> FALSE, faulted |-> FALSE]

ZeroTally == [G |-> 0, H |-> 0, M |-> 0, X |-> 0, P |-> 0, E |-> 0]

NoHist ==
    [trace |-> <<>>,              \* the steps Start has performed
     expect |-> <<>>,             \* actionID -> the last successful Put on it
     blobs |-> <<>>,              \* outputID -> the (size, body) Put under it
     probeSz |-> -1,              \* the length the probe get returned
     atClose |-> 0,               \* items not yet processed when Close was called
     by |-> "",                   \* the caller of the last Get or Put
     answer |-> NoS3Err,          \* the error GetObject gave the last Get
     puts |-> {},                 \* the successful Puts
     dup |-> FALSE,               \* an actionID was Put twice
     enq |-> 0,                   \* items sent on the channel
     done |-> 0,                  \* items a worker uploaded or discarded
     upFail |-> FALSE,            \* a worker's open or upload failed
     disk |-> ZeroTally,          \* the disk tier's calls, by what they returned
     s3 |-> ZeroTally,            \* the remote calls made for Get and Put
     probe |-> ZeroTally]         \* the remote calls made by Start

\* a call returning hit, miss or error, by what the caller sees
Surfaced(outputID, diskPath, err) ==
    IF err # NoErr THEN "X"
    ELSE IF outputID = <<>> /\ diskPath = <<>> THEN "M" ELSE "H"

TallyGet(t, outputID, diskPath, err) ==
    [t EXCEPT !.G = @ + 1, ![Surfaced(outputID, diskPath, err)] = @ + 1]

TallyPut(t, ok) ==
    [t EXCEPT !.P = @ + 1, !.E = IF ok THEN @ ELSE @ + 1]

\* The directory and the bucket a run may start on: nothing; or what
\* earlier runs and other machines left there
MalformedIndex == <<"{", "1">>

Worlds ==
    {[fs |-> <<>>, remote |-> <<>>],
     [fs |-> WriteFile(<<>>, IndexPath(<<"b">>), MalformedIndex),
      remote |-> WriteFile(WriteFile(<<>>, actionKey(<<"b">>),
                                     Object(<<"x">>, 1, MetaOf(<<"0", "a">>))),
                           actionKey(<<"a">>), Object(<<"x">>, 1, NoMeta))]}

InitWith(worlds, lens, workers, diskStarted) ==
    /\ proc = "running"
    /\ dstarted = diskStarted
    /\ dcounts = ZeroCounts
    /\ started = FALSE
    /\ rcounts = ZeroCounts
    /\ \E w \in worlds : fs = w.fs /\ remote = w.remote
    /\ work = <<>>
    /\ closed = FALSE
    /\ queueLen \in lens
    /\ nWorkers \in workers
    /\ wpc = [w \in Workers |-> "none"]
    /\ witem = [w \in Workers |-> NoWork]
    /\ wbody = [w \in Workers |-> NoFile]
    /\ cancelled = FALSE
    /\ faults = 0
    /\ pc = [c \in Clients |-> "idle"]
    /\ loc = [c \in Clients |-> NoLoc]
    /\ ret = [c \in Clients |-> NoRet]
    /\ ops = 0
    /\ hist = NoHist

Init == InitWith(Worlds, 0..MaxQueueLen, 1..MaxWorkers, FALSE)

\* the faults the environment may still inject
FaultSet == IF faults < MaxFaults THEN {FALSE, TRUE} ELSE {FALSE}

Fault(b) == IF b THEN 1 ELSE 0

\* the caller's call returns r
Return(c, r) ==
    /\ pc' = [pc EXCEPT ![c] = "idle"]
    /\ loc' = [loc EXCEPT ![c] = NoLoc]
    /\ ret' = [ret EXCEPT ![c] = r]

Goto(c, label) == pc' = [pc EXCEPT ![c] = label]

\* ------------------------------------------------------------ Start
\* The outcomes PutObject may have: success unless the transport rejects the
\* body; failure as an injected fault, when the context is done, or when the
\* transport rejects the body
PutOutcomes(size, body) ==
    (IF PutObjectRejects(size, body) THEN {} ELSE {TRUE})
    \cup (IF PutObjectRejects(size, body) \/ cancelled \/ faults < MaxFaults
          THEN {FALSE} ELSE {})

\* whether a failed PutObject was an injected fault
PutFault(size, body, ok) ==
    Fault(~ok /\ ~PutObjectRejects(size, body) /\ ~cancelled)

Trace(step) == [hist EXCEPT !.trace = Append(@, step)]

\* main calls Start once, before anything else
CallStart(c) ==
    /\ proc = "running" /\ pc[c] = "idle"
    /\ hist.trace = <<>>
    /\ Goto(c, "s_disk")
    /\ loc' = [loc EXCEPT ![c].op = "start"]
    /\ hist' = Trace("call")
    /\ UNCHANGED <<proc, dstarted, dcounts, fs, started, rcounts, remote, work,
                   closed, queueLen, nWorkers, wpc, witem, wbody, cancelled,
                   faults, ret, ops>>

\* c.diskCache.Start: os.MkdirAll, then started = true
StartDisk(c) ==
    /\ proc = "running" /\ pc[c] = "s_disk"
    /\ \E fail \in FaultSet :
        /\ faults' = faults + Fault(fail)
        /\ dstarted' = ~fail
        /\ hist' = Trace(IF fail THEN "diskStartFailed" ELSE "diskStart")
        /\ IF fail
           THEN Return(c, Ret("start", <<>>, <<>>, <<>>, "localstart", NoRef))
           ELSE Goto(c, "s_put") /\ UNCHANGED <<loc, ret>>
    /\ UNCHANGED <<proc, dcounts, fs, started, rcounts, remote, work, closed,
                   queueLen, nWorkers, wpc, witem, wbody, cancelled, ops>>

\* the probe put, s3Put(ctx, probeStr, probeStr, len(probeStr), probeStr),
\* up to its call of PutObject: the call is counted
StartProbePut(c) ==
    /\ proc = "running" /\ pc[c] = "s_put"
    /\ rcounts' = s3PutCalled(rcounts)
    /\ Goto(c, "s_putting")
    /\ UNCHANGED <<proc, dstarted, dcounts, fs, started, remote, work, closed,
                   queueLen, nWorkers, wpc, witem, wbody, cancelled, faults,
                   loc, ret, ops, hist>>

\* PutObject answers the probe put: the object is stored and its bytes
\* are counted; or the error is counted, the disk tier is closed and Start
\* returns the error
StartProbePutDone(c) ==
    /\ proc = "running" /\ pc[c] = "s_putting"
    /\ \E ok \in PutOutcomes(Len(probeStr), probeStr) :
        /\ faults' = faults + PutFault(Len(probeStr), probeStr, ok)
        /\ rcounts' = s3PutCounts(rcounts, Len(probeStr), ok)
        /\ remote' = IF ok
                     THEN s3PutRemote(remote, probeStr, probeStr,
                                      Len(probeStr), probeStr)
                     ELSE remote
        /\ dstarted' = ok
        /\ hist' = [Trace(IF ok THEN "probePut" ELSE "probePutFailed")
                       EXCEPT !.probe = TallyPut(@, ok)]
        /\ IF ok
           THEN Goto(c, "s_get") /\ UNCHANGED <<loc, ret>>
           ELSE Return(c, Ret("start", <<>>, <<>>, <<>>, "probeput", NoRef))
    /\ UNCHANGED <<proc, dcounts, fs, started, work, closed, queueLen,
                   nWorkers, wpc, witem, wbody, cancelled, ops>>

\* the probe get, s3Get(ctx, probeStr), up to its call of GetObject: the
\* call is counted
StartProbeGet(c) ==
    /\ proc = "running" /\ pc[c] = "s_get"
    /\ rcounts' = s3GetCalled(rcounts)
    /\ Goto(c, "s_getting")
    /\ UNCHANGED <<proc, dstarted, dcounts, fs, started, remote, work, closed,
                   queueLen, nWorkers, wpc, witem, wbody, cancelled, faults,
                   loc, ret, ops, hist>>

\* GetObject answers the probe get and s3Get counts what it returns (or
\* panics at its log line); on an error the disk tier is closed and Start
\* returns it
StartProbeGetDone(c) ==
    /\ proc = "running" /\ pc[c] = "s_getting"
    /\ \E resp \in GetResponses(remote, actionKey(probeStr), faults < MaxFaults),
          dur \in Durs :
        LET res == s3Get(resp, dur) IN
        /\ faults' = faults + Fault(resp.fault)
        /\ proc' = IF res.panic THEN "panic" ELSE proc
        /\ rcounts' = IF res.panic THEN rcounts
                      ELSE s3GetCounts(rcounts, res, dur)
        /\ dstarted' = (res.panic \/ res.err = NoErr)
        /\ hist' = IF res.panic THEN hist
                   ELSE [Trace(IF res.err = NoErr THEN "probeGet"
                               ELSE "probeGetFailed")
                            EXCEPT !.probe = TallyGet(@, res.outputID, <<>>, res.err),
                                   !.probeSz = res.size]
        /\ IF res.panic
           THEN UNCHANGED <<pc, loc, ret>>
           ELSE IF res.err # NoErr
           THEN Return(c, Ret("start", <<>>, <<>>, <<>>, "probeget", NoRef))
           ELSE /\ Goto(c, "s_check")
                /\ loc' = [loc EXCEPT ![c].sz = res.size]
                /\ ret' = ret
    /\ UNCHANGED <<dcounts, fs, started, remote, work, closed, queueLen,
                   nWorkers, wpc, witem, wbody, cancelled, ops>>

\* a check that accepts every length
SizeDiffersNever(sz) == FALSE

\* sz != int64(len(probeStr))
SizeDiffers(sz) == sz # Len(probeStr)

\* the size check: a differing length closes the disk tier and fails
StartCheck(c) ==
    /\ proc = "running" /\ pc[c] = "s_check"
    /\ LET bad == SizeDiffers(loc[c].sz) IN
        /\ dstarted' = ~bad
        /\ hist' = Trace(IF bad THEN "sizeMismatch" ELSE "sizeCheck")
        /\ IF bad
           THEN Return(c, Ret("start", <<>>, <<>>, <<>>, "probesize", NoRef))
           ELSE Goto(c, "s_spawn") /\ UNCHANGED <<loc, ret>>
    /\ UNCHANGED <<proc, dcounts, fs, started, rcounts, remote, work, closed,
                   queueLen, nWorkers, wpc, witem, wbody, cancelled, faults, ops>>

\* c.wg.Add(c.nWorkers) and the go statements: every worker is at its select
StartSpawn(c) ==
    /\ proc = "running" /\ pc[c] = "s_spawn"
    /\ wpc' = [w \in Workers |-> IF w <= nWorkers THEN "select" ELSE "none"]
    /\ Goto(c, "s_mark")
    /\ hist' = Trace("spawn")
    /\ UNCHANGED <<proc, dstarted, dcounts, fs, started, rcounts, remote, work,
                   closed, queueLen, nWorkers, witem, wbody, cancelled, faults,
                   loc, ret, ops>>

\* c.started = true; return nil
StartMark(c) ==
    /\ proc = "running" /\ pc[c] = "s_mark"
    /\ started' = TRUE
    /\ hist' = Trace("started")
    /\ Return(c, Ret("start", <<>>, <<>>, <<>>, NoErr, NoRef))
    /\ UNCHANGED <<proc, dstarted, dcounts, fs, rcounts, remote, work, closed,
                   queueLen, nWorkers, wpc, witem, wbody, cancelled, faults, ops>>

\* ------------------------------------------------------------ DiskCache.Put
\* the file after io.Copy appended its next chunk of src to it
CopyStep(old, src) ==
    old \o SubSeq(src, Len(old) + 1, Min(Len(src), Len(old) + CopyChunk))

\* the file when io.Copy has reached the end of src
RECURSIVE CopyAll(_, _)
CopyAll(old, src) ==
    IF Len(old) >= Len(src) THEN old ELSE CopyAll(CopyStep(old, src), src)

\* a rename that loses the file: the temporary name goes, dest is not set
RenameStepLost(f, tf, dest) == RemoveFile(f, tf)

\* the directory after writeAtomic's os.Rename(tempFile, dest)
RenameStep(f, tf, dest) == RenameFile(f, tf, dest)

\* writeAtomic(dest, r) run to its return on directory f: writeTempFile
\* (os.CreateTemp named tf, io.Copy of src), then os.Rename; fail names
\* the call that returns an error ("none": no call does), after which the
\* temporary file is removed
writeAtomic(f, dest, tf, src, fail) ==
    LET created == WriteFile(f, tf, <<>>)
        copied == WriteFile(created, tf, CopyAll(<<>>, src))
    IN  IF fail = "create" THEN [fs |-> f, size |-> 0, err |-> "io"]
        ELSE IF fail = "copy"
             THEN [fs |-> RemoveFile(created, tf), size |-> 0, err |-> "io"]
        ELSE IF fail = "rename"
             THEN [fs |-> RemoveFile(copied, tf), size |-> 0, err |-> "io"]
        ELSE [fs |-> RenameStep(copied, tf, dest), size |-> Len(copied[tf]),
              err |-> NoErr]

\* an index entry that leaves the outputID out
IndexEntryOfNone(outputID, size) == [v |-> 1, o |-> <<>>, n |-> size]

\* the index entry DiskCache.Put writes
IndexEntryOf(outputID, size) == [v |-> 1, o |-> outputID, n |-> size]

\* the writes of DiskCache.Put that an injected fault may fail
BlobFails == {"create", "copy", "rename"}
IndexFails == {"icreate", "icopy", "irename"}

IndexFail(fail) ==
    IF fail = "icreate" THEN "create"
    ELSE IF fail = "icopy" THEN "copy"
    ELSE IF fail = "irename" THEN "rename" ELSE "none"

\* a Put of size 0 that makes no blob file
CreateEmptySkipped(f, file) == f

\* os.OpenFile(file, O_CREATE|O_TRUNC|O_RDWR) and Close: file is there and
\* is empty
CreateEmpty(f, file) == WriteFile(f, file, <<>>)

\* DiskCache.Put on directory f by caller c, from its call to the check of
\* the blob's length: the blob is created or truncated in place for size 0,
\* else written by writeAtomic and its length compared with size
diskPutBlob(f, c, outputID, size, body, fail) ==
    LET file == BlobPath(outputID)
        blob == IF size = 0
                THEN IF fail = "open"
                     THEN [fs |-> f, size |-> 0, err |-> "io"]
                     ELSE [fs |-> CreateEmpty(f, file), size |-> 0,
                           err |-> NoErr]
                ELSE writeAtomic(f, file, TempPath(file, c), body,
                                 IF fail \in BlobFails THEN fail ELSE "none")
    IN  IF blob.err # NoErr THEN [fs |-> blob.fs, err |-> blob.err]
        ELSE IF size # 0 /\ blob.size # size
        THEN [fs |-> blob.fs, err |-> "size"]
        ELSE [fs |-> blob.fs, err |-> NoErr]

\* DiskCache.Put from there to its return: the index entry by writeAtomic
diskPutIndex(f, c, actionID, outputID, size, fail) ==
    LET actionFile == IndexPath(actionID)
        index == writeAtomic(f, actionFile, TempPath(actionFile, c),
                             jsonMarshal(IndexEntryOf(outputID, size)),
                             IndexFail(fail))
    IN  IF index.err # NoErr
        THEN [fs |-> index.fs, diskPath |-> <<>>, err |-> index.err]
        ELSE [fs |-> index.fs, diskPath |-> BlobPath(outputID), err |-> NoErr]

\* the disk counters after DiskCache.Put, its call counted, returned err
diskPutCounts(cnt, err) ==
    IF err = NoErr THEN cnt ELSE Add(cnt, "putErrors", 1)

\* the failures the environment may inject into DiskCache.Put's write of
\* the blob of size, and into its write of the index entry
BlobPutFails(size) ==
    {"none"} \cup
    (IF faults < MaxFaults
     THEN (IF size = 0 THEN {"open"} ELSE BlobFails) ELSE {})

IndexPutFails ==
    {"none"} \cup (IF faults < MaxFaults THEN IndexFails ELSE {})

\* What a read of the file worker w has open gives, in directory f: what the
\* file at the path holds as long as that is the file it opened
FileData(f, w) ==
    IF wbody[w].linked THEN f[witem[w].diskPath] ELSE wbody[w].data

\* the body PutObject holds once it has read data from the worker's file
BodyRead(data) == [linked |-> FALSE, data |-> data]

\* The workers' open files after a rename onto dest in directory f: a worker
\* that had opened dest keeps the file that was there, which has no name
\* any more and is written by nobody
Unlinked(wb, f, dest) ==
    [w \in Workers |->
        IF wb[w].linked /\ witem[w].diskPath = dest
        THEN [linked |-> FALSE, data |-> f[dest]]
        ELSE wb[w]]

\* the history without the expectations a disk Put on (actionID, outputID)
\* ends
Forget(h, actionID, outputID) ==
    [h EXCEPT !.expect =
        [a \in {x \in DOMAIN h.expect :
                   x # actionID /\ h.expect[x].o # outputID} |-> h.expect[a]]]

\* ------------------------------------------------------------ DiskCache.Put, call by call
\* The calls DiskCache.Put makes on the directory, one at a time, as two
\* callers of the disk tier interleave them

\* the blobs callers put concurrently
FilePutArgs ==
    {[o |-> <<"0", "a">>, size |-> 3, body |-> <<"x", "y", "z">>],
     [o |-> <<"0", "a">>, size |-> 1, body |-> <<"x">>],
     [o |-> <<"0", "b">>, size |-> 0, body |-> <<>>]}

\* the history with a Put of (size, body) under outputID begun
Begun(h, outputID, size, body) ==
    [h EXCEPT !.blobs =
        WriteFile(@, outputID,
                  (IF outputID \in DOMAIN @ THEN @[outputID] ELSE {})
                  \cup {[size |-> size, body |-> body]})]

\* writeAtomic(dest, r) begins: dest and what r yields
Begin(l, kind, dest, src) ==
    [l EXCEPT !.kind = kind, !.dest = dest, !.src = src]

\* DiskCache.Put up to its first write: the started check, the puts
\* counter, and for size 0 os.OpenFile(file, O_CREATE|O_WRONLY|O_TRUNC)
FilePut(c, actionID, outputID, size, body) ==
    /\ proc = "running" /\ pc[c] = "idle" /\ ops < MaxOps
    /\ ops' = ops + 1
    /\ IF ~dstarted
       THEN /\ proc' = "fatal"
            /\ UNCHANGED <<dcounts, fs, pc, loc, hist>>
       ELSE LET l == [NoLoc EXCEPT !.op = "put", !.a = actionID,
                                   !.o = outputID, !.size = size,
                                   !.body = body,
                                   !.ref = PutRef(outputID, size, body)]
                file == BlobPath(outputID)
                actionFile == IndexPath(actionID)
            IN  /\ proc' = proc
                /\ dcounts' = Add(dcounts, "puts", 1)
                /\ hist' = Begun(hist, outputID, size, body)
                /\ IF size = 0
                   THEN /\ fs' = CreateEmpty(fs, file)
                        /\ loc' = [loc EXCEPT ![c] =
                               Begin(l, "index", actionFile,
                                     jsonMarshal(IndexEntryOf(outputID, size)))]
                   ELSE /\ fs' = fs
                        /\ loc' = [loc EXCEPT ![c] =
                               Begin(l, "blob", file, body)]
                /\ Goto(c, "f_create")
    /\ UNCHANGED <<dstarted, started, rcounts, remote, work, closed, queueLen,
                   nWorkers, wpc, witem, wbody, cancelled, faults, ret>>

\* writeTempFile: os.CreateTemp(dir, base(dest)+".*")
FileCreate(c) ==
    /\ proc = "running" /\ pc[c] = "f_create"
    /\ fs' = WriteFile(fs, TempPath(loc[c].dest, c), <<>>)
    /\ Goto(c, "f_copy")
    /\ UNCHANGED <<proc, dstarted, dcounts, started, rcounts, remote, work,
                   closed, queueLen, nWorkers, wpc, witem, wbody, cancelled,
                   faults, loc, ret, ops, hist>>

\* writeTempFile: io.Copy(tf, r) writes its next chunk, or finds r at its end
FileCopy(c) ==
    /\ proc = "running" /\ pc[c] = "f_copy"
    /\ LET tf == TempPath(loc[c].dest, c)
       IN  IF Len(fs[tf]) < Len(loc[c].src)
           THEN /\ fs' = WriteFile(fs, tf, CopyStep(fs[tf], loc[c].src))
                /\ loc' = [loc EXCEPT ![c].sz = Len(fs'[tf])]
                /\ pc' = pc
           ELSE /\ fs' = fs
                /\ loc' = loc
                /\ Goto(c, "f_rename")
    /\ UNCHANGED <<proc, dstarted, dcounts, started, rcounts, remote, work,
                   closed, queueLen, nWorkers, wpc, witem, wbody, cancelled,
                   faults, ret, ops, hist>>

\* writeAtomic: os.Rename(tempFile, dest); then, for the blob, the check of
\* the length written and the index entry's writeAtomic, and for the index
\* entry the return of DiskCache.Put
FileRename(c) ==
    /\ proc = "running" /\ pc[c] = "f_rename"
    /\ LET l == loc[c]
           short == l.kind = "blob" /\ l.sz # l.size
       IN  /\ fs' = RenameStep(fs, TempPath(l.dest, c), l.dest)
           /\ IF short
              THEN /\ dcounts' = Add(dcounts, "putErrors", 1)
                   /\ hist' = [hist EXCEPT !.disk = TallyPut(@, FALSE)]
                   /\ Return(c, Ret("put", l.a, <<>>, <<>>, "size", l.ref))
              ELSE IF l.kind = "blob"
              THEN /\ loc' = [loc EXCEPT ![c] =
                          Begin([l EXCEPT !.sz = 0], "index", IndexPath(l.a),
                                jsonMarshal(IndexEntryOf(l.o, l.size)))]
                   /\ Goto(c, "f_create")
                   /\ UNCHANGED <<dcounts, ret, hist>>
              ELSE /\ dcounts' = dcounts
                   /\ hist' = [hist EXCEPT !.disk = TallyPut(@, TRUE)]
                   /\ Return(c, Ret("put", l.a, <<>>, BlobPath(l.o), NoErr,
                                    l.ref))
    /\ UNCHANGED <<proc, dstarted, started, rcounts, remote, work, closed,
                   queueLen, nWorkers, wpc, witem, wbody, cancelled, faults,
                   ops>>

\* ------------------------------------------------------------ started
\* started checks that let every call through
UsableAlways(st, dst) == TRUE

\* Get, Put and Close go on past their started checks, that of
\* DiskAsyncS3Cache (st) and that of the DiskCache method they call first
\* (dst); otherwise log.Fatal
Usable(st, dst) == st /\ dst

\* ------------------------------------------------------------ Get
\* a Get that asks the remote tier whatever the disk tier returned
LocalHitNever(d) == FALSE

\* err == nil && outputID != "": what DiskCache.Get returned is returned
LocalHit(d) == d.err = NoErr /\ d.outputID # <<>>

\* DiskAsyncS3Cache.Get up to its return or its call of s3Get: the started
\* checks of both tiers (log.Fatal), then DiskCache.Get
CallGet(c, actionID) ==
    /\ proc = "running" /\ pc[c] = "idle" /\ ops < MaxOps
    /\ ops' = ops + 1
    /\ \E ioerr \in FaultSet :
        LET live == Usable(started, dstarted)
            d == diskGet(fs, actionID, ioerr)
            ref == IF actionID \in DOMAIN hist.expect
                   THEN hist.expect[actionID] ELSE NoRef
        IN
        /\ ~live => ~ioerr
        /\ proc' = IF live THEN proc ELSE "fatal"
        /\ faults' = faults + Fault(ioerr)
        /\ dcounts' = IF live THEN Add(Add(dcounts, "gets", 1), d.count, 1)
                      ELSE dcounts
        /\ hist' = IF live
                   THEN [hist EXCEPT
                            !.by = c,
                            !.disk = TallyGet(@, d.outputID, d.diskPath, d.err)]
                   ELSE hist
        /\ IF ~live
           THEN /\ loc' = [loc EXCEPT ![c].op = "get"]
                /\ UNCHANGED <<pc, ret>>
           ELSE IF LocalHit(d)
           THEN Return(c, Ret("get", actionID, d.outputID, d.diskPath, NoErr, ref))
           ELSE /\ Goto(c, "g_s3")
                /\ loc' = [loc EXCEPT ![c] =
                             [NoLoc EXCEPT !.op = "get", !.a = actionID,
                                           !.ref = ref, !.faulted = ioerr]]
                /\ ret' = ret
    /\ UNCHANGED <<dstarted, fs, started, rcounts, remote, work, closed,
                   queueLen, nWorkers, wpc, witem, wbody, cancelled>>

\* a Put that sends its item whatever c.diskCache.Put returned
PutSendsAlways(err) == TRUE

\* Put goes on to its send on c.work: c.diskCache.Put returned no error
PutSends(err) == err = NoErr

\* c.diskCache.Put returns (diskPath, err) to caller c: Get returns the
\* error or the hit; Put returns the error or goes on to its send on c.work
DiskPutReturns(c, diskPath, err, bad) ==
    LET l == loc[c] IN
    IF l.op = "get"
    THEN Return(c, Faulted(IF err # NoErr
                           THEN Ret("get", l.a, <<>>, <<>>, err, l.ref)
                           ELSE Ret("get", l.a, l.o, diskPath, NoErr, l.ref),
                           bad))
    ELSE IF ~PutSends(err)
    THEN Return(c, Faulted(Ret("put", l.a, <<>>, <<>>, "localput", l.ref),
                           bad))
    ELSE /\ Goto(c, "p_send")
         /\ loc' = [loc EXCEPT ![c] = [l EXCEPT !.body = <<>>]]
         /\ ret' = ret

\* Get after a local miss calls s3Get, which counts the call and calls
\* GetObject
GetS3(c) ==
    /\ proc = "running" /\ pc[c] = "g_s3"
    /\ rcounts' = s3GetCalled(rcounts)
    /\ Goto(c, "g_wait")
    /\ UNCHANGED <<proc, dstarted, dcounts, fs, started, remote, work, closed,
                   queueLen, nWorkers, wpc, witem, wbody, cancelled, faults,
                   loc, ret, ops, hist>>

\* GetObject answers and s3Get counts what it returns (or panics at its
\* log line); Get returns its error or its miss, or goes on to
\* c.diskCache.Put of what it returned
GetS3Done(c) ==
    /\ proc = "running" /\ pc[c] = "g_wait"
    /\ \E resp \in GetResponses(remote, actionKey(loc[c].a), faults < MaxFaults),
          dur \in Durs :
        LET res == s3Get(resp, dur)
            l == loc[c]
            bad == l.faulted \/ resp.fault
        IN
        /\ faults' = faults + Fault(resp.fault)
        /\ proc' = IF res.panic THEN "panic" ELSE proc
        /\ rcounts' = IF res.panic THEN rcounts
                      ELSE s3GetCounts(rcounts, res, dur)
        /\ hist' = IF res.panic THEN hist
                   ELSE [hist EXCEPT
                           !.answer = resp.err,
                           !.s3 = TallyGet(@, res.outputID, <<>>, res.err)]
        /\ IF res.panic THEN UNCHANGED <<pc, loc, ret>>
           ELSE IF res.err # NoErr
           THEN Return(c, Faulted(Ret("get", l.a, <<>>, <<>>, res.err, l.ref),
                                  bad))
           ELSE IF res.outputID = <<>>
           THEN Return(c, Faulted(Ret("get", l.a, <<>>, <<>>, NoErr, l.ref),
                                  bad))
           ELSE /\ Goto(c, "g_fill")
                /\ loc' = [loc EXCEPT ![c] =
                             [l EXCEPT !.o = res.outputID, !.size = res.size,
                                       !.body = res.body, !.faulted = bad]]
                /\ ret' = ret
    /\ UNCHANGED <<dstarted, dcounts, fs, started, remote, work, closed,
                   queueLen, nWorkers, wpc, witem, wbody, cancelled, ops>>

\* Get calls c.diskCache.Put with what s3Get returned: the disk tier's
\* started check (log.Fatal) and its count of the call
GetFill(c) ==
    /\ proc = "running" /\ pc[c] = "g_fill"
    /\ proc' = IF dstarted THEN proc ELSE "fatal"
    /\ dcounts' = IF dstarted THEN Add(dcounts, "puts", 1) ELSE dcounts
    /\ hist' = IF dstarted THEN Forget(hist, loc[c].a, loc[c].o) ELSE hist
    /\ IF dstarted THEN Goto(c, "dp_blob") ELSE pc' = pc
    /\ UNCHANGED <<dstarted, fs, started, rcounts, remote, work, closed,
                   queueLen, nWorkers, wpc, witem, wbody, cancelled, faults,
                   loc, ret, ops>>

\* ------------------------------------------------------------ Put
\* DiskAsyncS3Cache.Put up to the first file call of c.diskCache.Put: the
\* started checks of both tiers (log.Fatal), the empty reader for size 0,
\* and the disk tier's count of the call
CallPut(c, actionID, outputID, size, body) ==
    /\ proc = "running" /\ pc[c] = "idle" /\ ops < MaxOps
    /\ ops' = ops + 1
    /\ LET live == Usable(started, dstarted) IN
        /\ proc' = IF live THEN proc ELSE "fatal"
        /\ dcounts' = IF live THEN Add(dcounts, "puts", 1) ELSE dcounts
        /\ hist' = IF live
                   THEN [Forget(hist, actionID, outputID) EXCEPT !.by = c]
                   ELSE hist
        /\ IF ~live
           THEN /\ loc' = [loc EXCEPT ![c].op = "put"]
                /\ pc' = pc
           ELSE /\ Goto(c, "dp_blob")
                /\ loc' = [loc EXCEPT ![c] =
                             [NoLoc EXCEPT
                                 !.op = "put", !.a = actionID, !.o = outputID,
                                 !.size = size,
                                 !.body = IF size = 0 THEN <<>> ELSE body,
                                 !.ref = PutRef(outputID, size, body)]]
    /\ UNCHANGED <<dstarted, fs, started, rcounts, remote, work, closed,
                   queueLen, nWorkers, wpc, witem, wbody, cancelled, faults,
                   ret>>

\* ------------------------------------------------------------ DiskCache.Put
\* DiskCache.Put writes the blob: os.OpenFile with O_TRUNC for size 0, which
\* empties the file that is there, also for a worker that has it open; else
\* writeAtomic, whose rename puts a new file at the path, and the check of
\* the length written. An error is counted and returned. The temporary
\* file has a name no other goroutine uses, so its creation and the copy
\* into it are not steps of their own here
DiskPutBlob(c) ==
    /\ proc = "running" /\ pc[c] = "dp_blob"
    /\ LET l == loc[c] IN
       \E fail \in BlobPutFails(l.size) :
       \E put \in {diskPutBlob(fs, c, l.o, l.size, l.body, fail)} :
        LET bad == l.faulted \/ fail # "none" IN
        /\ faults' = faults + Fault(fail # "none")
        /\ fs' = put.fs
        /\ wbody' = IF l.size # 0 /\ fail = "none"
                    THEN Unlinked(wbody, fs, BlobPath(l.o)) ELSE wbody
        /\ dcounts' = diskPutCounts(dcounts, put.err)
        /\ IF put.err = NoErr
           THEN /\ Goto(c, "dp_index")
                /\ UNCHANGED <<loc, ret, hist>>
           ELSE /\ hist' = [hist EXCEPT !.disk = TallyPut(@, FALSE)]
                /\ DiskPutReturns(c, <<>>, put.err, bad)
    /\ UNCHANGED <<proc, dstarted, started, rcounts, remote, work, closed,
                   queueLen, nWorkers, wpc, witem, cancelled, ops>>

\* DiskCache.Put writes the index entry by writeAtomic and returns the
\* blob's path, or counts and returns the error
DiskPutIndex(c) ==
    /\ proc = "running" /\ pc[c] = "dp_index"
    /\ LET l == loc[c] IN
       \E fail \in IndexPutFails :
       \E put \in {diskPutIndex(fs, c, l.a, l.o, l.size, fail)} :
        LET bad == l.faulted \/ fail # "none" IN
        /\ faults' = faults + Fault(fail # "none")
        /\ fs' = put.fs
        /\ dcounts' = diskPutCounts(dcounts, put.err)
        /\ hist' = [hist EXCEPT !.disk = TallyPut(@, put.err = NoErr)]
        /\ DiskPutReturns(c, put.diskPath, put.err, bad)
    /\ UNCHANGED <<proc, dstarted, started, rcounts, remote, work, closed,
                   queueLen, nWorkers, wpc, witem, wbody, cancelled, ops>>

\* ------------------------------------------------------------ the queue
\* The workers blocked in their select with nothing buffered: a send can
\* hand its item to one of them
Receivers == {w \in Workers : wpc[w] = "select" /\ work = <<>>}

\* a channel that buffers one item more than its capacity
HasRoomOneMore(q, capacity) == Len(q) <= capacity

\* the buffer of a channel made with make(chan putWork, capacity) takes
\* another item
HasRoom(q, capacity) == Len(q) < capacity

\* a worker that opens the blob of every item
AfterRecvOpen(item) == "open"

\* the position of a worker that has received item
AfterRecv(item) == IF item.size = 0 THEN "put" ELSE "open"

\* a send that also waits until no worker is busy with an item
CanSendIdle ==
    /\ Len(work) < queueLen \/ Receivers # {}
    /\ \A w \in Workers : wpc[w] \notin {"open", "put", "putting"}

\* the send c.work <- w can complete: there is room in the buffer, or a
\* worker is receiving
CanSend == HasRoom(work, queueLen) \/ Receivers # {}

\* DiskAsyncS3Cache.Put after c.diskCache.Put returned: the send on c.work
\* (a panic on a closed channel) and the return of the disk path
PSend(c) ==
    /\ proc = "running" /\ pc[c] = "p_send"
    /\ closed \/ CanSend
    /\ LET l == loc[c]
           item == PutWork(l.a, l.o, l.size, BlobPath(l.o))
           buffered == HasRoom(work, queueLen)
       IN
        /\ proc' = IF closed THEN "panic" ELSE proc
        /\ work' = IF ~closed /\ buffered THEN Append(work, item) ELSE work
        /\ \E w \in (IF closed \/ buffered THEN {0} ELSE Receivers) :
            /\ wpc' = IF w = 0 THEN wpc
                      ELSE [wpc EXCEPT ![w] = AfterRecv(item)]
            /\ witem' = IF w = 0 THEN witem ELSE [witem EXCEPT ![w] = item]
        /\ IF closed THEN UNCHANGED <<pc, loc, ret, hist>>
           ELSE /\ Return(c, Ret("put", l.a, l.o, BlobPath(l.o), NoErr, l.ref))
                /\ hist' = [hist EXCEPT
                       !.enq = @ + 1,
                       !.dup = @ \/ \E q \in hist.puts : q.a = l.a,
                       !.puts = @ \cup {[a |-> l.a, o |-> l.o, size |-> l.size]},
                       !.expect = IF l.size = Len(l.ref.b)
                                  THEN WriteFile(@, l.a, l.ref) ELSE @]
    /\ UNCHANGED <<dstarted, dcounts, fs, started, rcounts, remote, closed,
                   queueLen, nWorkers, wbody, cancelled, faults, ops>>

\* ------------------------------------------------------------ Close
\* DiskAsyncS3Cache.Close up to close(c.work): the started checks of both
\* tiers (log.Fatal) and DiskCache.Close
CallClose(c) ==
    /\ proc = "running" /\ pc[c] = "idle"
    /\ LET live == Usable(started, dstarted) IN
        /\ proc' = IF live THEN proc ELSE "fatal"
        /\ dstarted' = IF live THEN FALSE ELSE dstarted
        /\ IF live
           THEN Goto(c, "c_chan") /\ loc' = [loc EXCEPT ![c].op = "close"]
           ELSE pc' = pc /\ loc' = [loc EXCEPT ![c].op = "close"]
        /\ hist' = IF live THEN [hist EXCEPT !.atClose = hist.enq - hist.done]
                   ELSE hist
    /\ UNCHANGED <<dcounts, fs, started, rcounts, remote, work, closed,
                   queueLen, nWorkers, wpc, witem, wbody, cancelled, faults,
                   ret, ops>>

\* close(c.work): a panic when it is closed already
CloseChan(c) ==
    /\ proc = "running" /\ pc[c] = "c_chan"
    /\ proc' = IF closed THEN "panic" ELSE proc
    /\ closed' = TRUE
    /\ IF closed THEN pc' = pc ELSE Goto(c, "c_wait")
    /\ UNCHANGED <<dstarted, dcounts, fs, started, rcounts, remote, work,
                   queueLen, nWorkers, wpc, witem, wbody, cancelled, faults,
                   loc, ret, ops, hist>>

\* c.wg.Wait() returns: every worker has returned
WaitDone == \A w \in Workers : wpc[w] \in {"none", "exit"}

CloseWait(c) ==
    /\ proc = "running" /\ pc[c] = "c_wait"
    /\ WaitDone
    /\ Return(c, Ret("close", <<>>, <<>>, <<>>, NoErr, NoRef))
    /\ UNCHANGED <<proc, dstarted, dcounts, fs, started, rcounts, remote, work,
                   closed, queueLen, nWorkers, wpc, witem, wbody, cancelled,
                   faults, ops, hist>>

\* ------------------------------------------------------------ workers
\* a receive that leaves the item in the channel's buffer
WRecvKeep(w) ==
    /\ proc = "running" /\ wpc[w] = "select"
    /\ work # <<>>
    /\ work' = work
    /\ witem' = [witem EXCEPT ![w] = Head(work)]
    /\ wpc' = [wpc EXCEPT ![w] = AfterRecv(Head(work))]
    /\ UNCHANGED <<proc, dstarted, dcounts, fs, started, rcounts, remote,
                   closed, queueLen, nWorkers, wbody, cancelled, faults, pc,
                   loc, ret, ops, hist>>

\* the select's case w, ok := <-c.work with ok: an item is received
WRecv(w) ==
    /\ proc = "running" /\ wpc[w] = "select"
    /\ work # <<>>
    /\ work' = Tail(work)
    /\ witem' = [witem EXCEPT ![w] = Head(work)]
    /\ wpc' = [wpc EXCEPT ![w] = AfterRecv(Head(work))]
    /\ UNCHANGED <<proc, dstarted, dcounts, fs, started, rcounts, remote,
                   closed, queueLen, nWorkers, wbody, cancelled, faults, pc,
                   loc, ret, ops, hist>>

\* a worker that returns as soon as the channel is closed, its buffer
\* not drained
WClosedEarly(w) ==
    /\ proc = "running" /\ wpc[w] = "select"
    /\ closed
    /\ wpc' = [wpc EXCEPT ![w] = "exit"]
    /\ UNCHANGED <<proc, dstarted, dcounts, fs, started, rcounts, remote, work,
                   closed, queueLen, nWorkers, witem, wbody, cancelled, faults,
                   pc, loc, ret, ops, hist>>

\* the select's case w, ok := <-c.work with !ok: closed and drained
WClosed(w) ==
    /\ proc = "running" /\ wpc[w] = "select"
    /\ closed /\ work = <<>>
    /\ wpc' = [wpc EXCEPT ![w] = "exit"]
    /\ UNCHANGED <<proc, dstarted, dcounts, fs, started, rcounts, remote, work,
                   closed, queueLen, nWorkers, witem, wbody, cancelled, faults,
                   pc, loc, ret, ops, hist>>

\* the select's case <-ctx.Done()
WCtxDone(w) ==
    /\ proc = "running" /\ wpc[w] = "select"
    /\ cancelled
    /\ wpc' = [wpc EXCEPT ![w] = "exit"]
    /\ UNCHANGED <<proc, dstarted, dcounts, fs, started, rcounts, remote, work,
                   closed, queueLen, nWorkers, witem, wbody, cancelled, faults,
                   pc, loc, ret, ops, hist>>

\* the history after a worker is done with an item
Processed(h, ok) ==
    [h EXCEPT !.done = @ + 1, !.upFail = @ \/ ~ok]

\* os.Open(w.diskPath): on an error the item is logged and dropped;
\* otherwise the worker holds the file that is at the path now, not yet read
WOpen(w) ==
    /\ proc = "running" /\ wpc[w] = "open"
    /\ \E fail \in FaultSet \cup {~Exists(fs, witem[w].diskPath)} :
        /\ ~Exists(fs, witem[w].diskPath) => fail
        /\ faults' = faults + Fault(fail /\ Exists(fs, witem[w].diskPath))
        /\ wpc' = [wpc EXCEPT ![w] = IF fail THEN "select" ELSE "put"]
        /\ witem' = IF fail THEN [witem EXCEPT ![w] = NoWork] ELSE witem
        /\ wbody' = IF fail THEN wbody
                    ELSE [wbody EXCEPT ![w] = OpenedFile]
        /\ hist' = IF fail THEN Processed(hist, FALSE) ELSE hist
    /\ UNCHANGED <<proc, dstarted, dcounts, fs, started, rcounts, remote, work,
                   closed, queueLen, nWorkers, cancelled, pc, loc, ret, ops>>

\* c.s3Put(ctx, w.actionID, w.outputID, w.size, r) up to its call of
\* PutObject: the call is counted
WPut(w) ==
    /\ proc = "running" /\ wpc[w] = "put"
    /\ rcounts' = s3PutCalled(rcounts)
    /\ wpc' = [wpc EXCEPT ![w] = "putting"]
    /\ UNCHANGED <<proc, dstarted, dcounts, fs, started, remote, work, closed,
                   queueLen, nWorkers, witem, wbody, cancelled, faults, pc,
                   loc, ret, ops, hist>>

\* PutObject, called and not yet answered, reads its Body, the file the
\* worker opened, as the file is then: a Put of size 0 on the same outputID
\* that truncates the file before this step leaves nothing to read, one
\* that truncates it after this step changes nothing of what is sent
WRead(w) ==
    /\ proc = "running" /\ wpc[w] = "putting"
    /\ wbody[w].linked
    /\ wbody' = [wbody EXCEPT ![w] = BodyRead(FileData(fs, w))]
    /\ UNCHANGED <<proc, dstarted, dcounts, fs, started, rcounts, remote, work,
                   closed, queueLen, nWorkers, wpc, witem, cancelled, faults,
                   pc, loc, ret, ops, hist>>

\* PutObject answers for the body r it has read (an empty reader, or what
\* the worker's file gave): the object is stored and its bytes are counted;
\* or the error is counted and logged. Either way the worker is done with
\* the item
WPutDone(w) ==
    /\ proc = "running" /\ wpc[w] = "putting"
    /\ ~wbody[w].linked
    /\ LET it == witem[w]
           r == wbody[w].data
       IN
       \E ok \in PutOutcomes(it.size, r) :
        /\ faults' = faults + PutFault(it.size, r, ok)
        /\ rcounts' = s3PutCounts(rcounts, it.size, ok)
        /\ remote' = IF ok
                     THEN s3PutRemote(remote, it.actionID, it.outputID,
                                      it.size, r)
                     ELSE remote
        /\ hist' = [Processed(hist, ok) EXCEPT !.s3 = TallyPut(@, ok)]
    /\ wpc' = [wpc EXCEPT ![w] = "select"]
    /\ witem' = [witem EXCEPT ![w] = NoWork]
    /\ wbody' = [wbody EXCEPT ![w] = NoFile]
    /\ UNCHANGED <<proc, dstarted, dcounts, fs, started, work, closed,
                   queueLen, nWorkers, cancelled, pc, loc, ret, ops>>

\* ------------------------------------------------------------ environment
\* the context given to Start is cancelled
Cancel ==
    /\ proc = "running" /\ ~cancelled
    /\ cancelled' = TRUE
    /\ UNCHANGED <<proc, dstarted, dcounts, fs, started, rcounts, remote, work,
                   closed, queueLen, nWorkers, wpc, witem, wbody, faults, pc,
                   loc, ret, ops, hist>>

\* ------------------------------------------------------------ specification
\* the steps of main's call of Start
StartStep(c) ==
    \/ CallStart(c) \/ StartDisk(c)
    \/ StartProbePut(c) \/ StartProbePutDone(c)
    \/ StartProbeGet(c) \/ StartProbeGetDone(c)
    \/ StartCheck(c) \/ StartSpawn(c) \/ StartMark(c)

\* the steps of the caller's Get, Put and Close calls
ClientStep(c, puts) ==
    \/ \E a \in ActionIDs : CallGet(c, a)
    \/ GetS3(c) \/ GetS3Done(c) \/ GetFill(c)
    \/ \E a \in ActionIDs, p \in puts : CallPut(c, a, p.o, p.size, p.body)
    \/ DiskPutBlob(c) \/ DiskPutIndex(c)
    \/ PSend(c)
    \/ CallClose(c) \/ CloseChan(c) \/ CloseWait(c)

\* the steps of a worker whose context is never done
WorkerStep(w) ==
    \/ WRecv(w) \/ WClosed(w) \/ WOpen(w)
    \/ WPut(w) \/ WRead(w) \/ WPutDone(w)

\* The program as main runs it: one caller (the request loop), the worker
\* pool, and a context that is cancelled only when main returns
Next ==
    \/ StartStep("1")
    \/ ClientStep("1", PutArgs)
    \/ \E w \in Workers : WorkerStep(w)

Spec == Init /\ [][Next]_vars

\* The cache under a caller that may cancel the context given to Start at
\* any time: a fresh directory and bucket, blobs with hex outputIDs
CtxPutArgs == {p \in PutArgs : hexDecodeOK(p.o) /\ p.o # <<>>}

InitCtx ==
    InitWith({[fs |-> <<>>, remote |-> <<>>]}, 0..MaxQueueLen, 1..MaxWorkers, FALSE)

NextCtx ==
    \/ StartStep("1")
    \/ ClientStep("1", CtxPutArgs)
    \/ \E w \in Workers : WorkerStep(w) \/ WCtxDone(w)
    \/ Cancel

SpecCtx == InitCtx /\ [][NextCtx]_vars

\* Close has been called
CloseCalled ==
    \E c \in Clients : loc[c].op = "close" \/ ret[c].op = "close"

\* the steps of a caller when Close is to be called once
RaceStep(c) ==
    \/ \E a \in ActionIDs : CallGet(c, a)
    \/ GetS3(c) \/ GetS3Done(c) \/ GetFill(c)
    \/ \E a \in ActionIDs, p \in CtxPutArgs : CallPut(c, a, p.o, p.size, p.body)
    \/ DiskPutBlob(c) \/ DiskPutIndex(c)
    \/ PSend(c)
    \/ ~CloseCalled /\ CallClose(c)
    \/ CloseChan(c) \/ CloseWait(c)

NextRace ==
    \/ StartStep("1")
    \/ \E c \in Clients : RaceStep(c)
    \/ \E w \in Workers : WorkerStep(w)

\* Two callers of one cache, no lock between them: after Start each calls
\* Get and Put as it likes and one of them calls Close, once
SpecRace == InitCtx /\ [][NextRace]_vars

\* the steps a caller's goroutine takes inside a call it has made
RunStep(c) ==
    \/ StartDisk(c) \/ StartProbePut(c) \/ StartProbePutDone(c)
    \/ StartProbeGet(c) \/ StartProbeGetDone(c) \/ StartCheck(c)
    \/ StartSpawn(c) \/ StartMark(c)
    \/ GetS3(c) \/ GetS3Done(c) \/ GetFill(c)
    \/ DiskPutBlob(c) \/ DiskPutIndex(c)
    \/ PSend(c) \/ CloseChan(c) \/ CloseWait(c)

\* The scheduler runs every goroutine that can take a step, and every call
\* of the S3 client and of the file system returns: a worker that can
\* receive, open, upload or return does so, and a caller inside a call goes
\* on when its next step is possible. When the caller calls and when the
\* context is cancelled is left open
Fairness ==
    /\ \A w \in Workers : WF_vars(WorkerStep(w) \/ WCtxDone(w))
    /\ \A c \in Clients : WF_vars(RunStep(c))

\* SpecCtx on a fair scheduler
SpecCtxFair == InitCtx /\ [][NextCtx]_vars /\ Fairness

\* The disk tier alone, started, under two callers whose Puts interleave
\* call by call
InitFiles == InitWith(Worlds, {0}, {1}, TRUE)

FileStep(c) ==
    \/ \E a \in ActionIDs, p \in FilePutArgs :
          FilePut(c, a, p.o, p.size, p.body)
    \/ FileCreate(c) \/ FileCopy(c) \/ FileRename(c)

NextFiles == \E c \in Clients : FileStep(c)

SpecFiles == InitFiles /\ [][NextFiles]_vars

\* the process is killed: no goroutine takes another step, no deferred
\* removal of a temporary file runs, the directory stays as it is
Crash ==
    /\ proc = "running"
    /\ proc' = "crash"
    /\ UNCHANGED <<dstarted, dcounts, fs, started, rcounts, remote, work,
                   closed, queueLen, nWorkers, wpc, witem, wbody, cancelled,
                   faults, pc, loc, ret, ops, hist>>

NextCrash == (\E c \in Clients : FileStep(c)) \/ Crash

\* DiskCache.Put call by call, in a process that may be killed at any step
SpecCrash == InitFiles /\ [][NextCrash]_vars

\* ------------------------------------------------------------ properties
\* a caller's last call was a Get that has returned, no fault injected
\* into it
GetReturned(c) == pc[c] = "idle" /\ ret[c].op = "get" /\ ~ret[c].faulted

\* The Get returned what the Put it refers to stored: the outputID, the
\* blob's path, and at that path the bytes of the Put
ReturnsThePut(c) ==
    /\ ret[c].err = NoErr
    /\ ret[c].outputID = ret[c].ref.o
    /\ ret[c].diskPath = BlobPath(ret[c].ref.o)
    /\ Exists(fs, ret[c].diskPath)
    /\ fs[ret[c].diskPath] = ret[c].ref.b

\* C1 as the specification states it: for every outputID, a Get, no fault
\* injected, that follows a successful Put(actionID, outputID, size, body)
\* with size the length of body, with no later disk Put on that actionID
\* or outputID, returns nil error, outputID, and a path whose file holds
\* exactly the bytes of body
C1_AnyOutputID ==
    \A c \in Clients : GetReturned(c) /\ ret[c].ref.set => ReturnsThePut(c)

\* C1: for every outputID that is non-empty and that hex.DecodeString
\* accepts, a Get, no fault injected, that follows a successful
\* Put(actionID, outputID, size, body) with size the length of body, with
\* no later disk Put on that actionID or outputID, returns nil error,
\* outputID, and a path whose file holds exactly the bytes of body
C1_PutThenGet ==
    \A c \in Clients :
        /\ GetReturned(c) /\ ret[c].ref.set
        /\ hexDecodeOK(ret[c].ref.o) /\ ret[c].ref.o # <<>>
        => ReturnsThePut(c)

\* a Get has returned the non-empty blob of an earlier Put
C1_Witness ==
    \E c \in Clients :
        /\ GetReturned(c) /\ ret[c].ref.set
        /\ hexDecodeOK(ret[c].ref.o) /\ ret[c].ref.o # <<>>
        /\ ret[c].ref.b # <<>>
        /\ ReturnsThePut(c)

\* a caller's last call was a Close that has returned
CloseReturned(c) == pc[c] = "idle" /\ ret[c].op = "close"

\* the bucket holds the object a Put's replication writes
Replicated(p) ==
    /\ actionKey(p.a) \in DOMAIN remote
    /\ remote[actionKey(p.a)].len = p.size
    /\ Len(remote[actionKey(p.a)].body) = p.size
    /\ remote[actionKey(p.a)].meta = MetaOf(p.o)

\* C2 as the specification states it: when Close has returned after Puts
\* on pairwise distinct actionIDs and no worker failed to open a blob or to
\* upload it, the bucket holds for each successful Put an object under
\* prefix/actionID whose length is the Put's size and whose outputid
\* metadata is the Put's outputID, whatever the queue length (0 included)
\* and the number of workers
C2_CloseReplicatesAll ==
    \A c \in Clients :
        CloseReturned(c) /\ ~hist.dup /\ ~hist.upFail
        => \A p \in hist.puts : Replicated(p)

\* C2: when Close has returned after Puts on pairwise distinct actionIDs,
\* the context given to Start not done by then and no worker having failed
\* to open a blob or to upload it, the bucket holds for each successful Put
\* an object under prefix/actionID whose length is the Put's size and whose
\* outputid metadata is the Put's outputID, whatever the queue length (0
\* included) and the number of workers
C2_ReplicatesUnlessCancelled ==
    \A c \in Clients :
        CloseReturned(c) /\ ~ret[c].ctxDone /\ ~hist.dup /\ ~hist.upFail
        => \A p \in hist.puts : Replicated(p)

\* Close has returned, the context not done, with two Puts replicated
C2_Witness ==
    \E c \in Clients :
        /\ CloseReturned(c) /\ ~ret[c].ctxDone
        /\ ~hist.dup /\ ~hist.upFail
        /\ Cardinality(hist.puts) = 2
        /\ \A p \in hist.puts : Replicated(p)

\* C3 as the specification states it: when Close returns the queue is empty
\* and every item enqueued has been processed
C3_AlwaysDrained ==
    \A c \in Clients :
        CloseReturned(c) => work = <<>> /\ hist.done = hist.enq

\* C3: when Close returns and the context given to Start was not done by
\* then, the queue is empty and every item enqueued before Close was called
\* has been processed by a worker, uploaded or discarded after a logged
\* failure
C3_DrainedUnlessCancelled ==
    \A c \in Clients :
        CloseReturned(c) /\ ~ret[c].ctxDone
        => work = <<>> /\ hist.done = hist.enq

\* Close was called with items not yet processed and has returned, the
\* context not done
C3_Witness ==
    \E c \in Clients :
        /\ CloseReturned(c) /\ ~ret[c].ctxDone
        /\ hist.atClose > 0
        /\ work = <<>> /\ hist.done = hist.enq

\* ---- Get of what was never written, and of a bad index file
\* on this step caller c's DiskCache.Get returned
DiskGetOf(c) ==
    pc[c] = "idle" /\ hist'.by = c /\ hist'.disk.G = hist.disk.G + 1

\* the actionID of the Get whose DiskCache.Get returned on this step
GetArg(c) == IF pc'[c] = "g_s3" THEN loc'[c].a ELSE ret'[c].a

\* on this step caller c's s3Get counted its call and called GetObject
S3GetCallOf(c) == pc[c] = "g_s3" /\ pc'[c] # "g_s3"

\* that step adds one to gets and changes nothing else
CountsTheGet(c) ==
    S3GetCallOf(c)
    => /\ rcounts' = [rcounts EXCEPT !.gets = @ + 1]
       /\ pc'[c] = "g_wait" /\ loc'[c] = loc[c] /\ ret' = ret
       /\ UNCHANGED <<proc, dcounts, fs, remote, work, hist>>

\* on this step GetObject answered caller c's s3Get, which returned
S3GetOf(c) == pc[c] = "g_wait" /\ (pc'[c] # "g_wait" \/ proc' # proc)

\* on this step caller c's Get goes on from the disk tier to s3Get as it
\* does for an absent index file, the disk tier having counted under cnt
GoesOnToRemote(c, cnt) ==
    /\ proc' = proc /\ pc'[c] = "g_s3" /\ ret' = ret
    /\ [loc'[c] EXCEPT !.ref = NoRef] =
           [NoLoc EXCEPT !.op = "get", !.a = GetArg(c)]
    /\ dcounts' = Add(Add(dcounts, "gets", 1), cnt, 1)
    /\ fs' = fs /\ remote' = remote /\ rcounts' = rcounts

\* on this step caller c's Get returns a miss
ReturnsMiss(c) ==
    /\ proc' = proc /\ pc'[c] = "idle"
    /\ ret'[c].op = "get" /\ ret'[c].a = loc[c].a
    /\ ret'[c].outputID = <<>> /\ ret'[c].diskPath = <<>>
    /\ ret'[c].err = NoErr

NeverWritten(a) ==
    ~Exists(fs, IndexPath(a)) /\ actionKey(a) \notin DOMAIN remote

\* C4: a Get on an actionID that neither tier holds, no fault injected,
\* is a miss and never an error: DiskCache.Get returns a miss (counted in
\* misses), s3Get returns ("", 0, nil, nil) (counted in misses, nothing
\* backfilled), Get returns empty outputID, empty path and nil error, and
\* the directory and the bucket are left as they were
C4_NeverWrittenMisses ==
    [][\A c \in Clients :
        /\ DiskGetOf(c) /\ faults' = faults /\ NeverWritten(GetArg(c))
           => GoesOnToRemote(c, "misses")
        /\ CountsTheGet(c)
        /\ S3GetOf(c) /\ faults' = faults /\ NeverWritten(loc[c].a)
           => /\ ReturnsMiss(c)
              /\ rcounts' = Add(rcounts, "misses", 1)
              /\ fs' = fs /\ remote' = remote /\ dcounts' = dcounts]_vars

\* a Get of an actionID neither tier holds has returned a miss
C4_Witness ==
    \E c \in Clients :
        /\ GetReturned(c) /\ NeverWritten(ret[c].a)
        /\ ret[c].outputID = <<>> /\ ret[c].diskPath = <<>>
        /\ ret[c].err = NoErr
        /\ dcounts.misses >= 1 /\ rcounts.misses >= 1

\* the index file of a holds an entry whose outputID has a character that
\* is no hex digit
NonHexIndex(a) ==
    /\ Exists(fs, IndexPath(a))
    /\ \E p \in PutArgs, n \in 0..1 :
          /\ fs[IndexPath(a)] = jsonMarshal(IndexEntryOf(p.o, n))
          /\ \E i \in 1..Len(p.o) : p.o[i] \notin HexDigits

\* the index file of a holds content that is no index entry
MalformedIndexOf(a) ==
    Exists(fs, IndexPath(a)) /\ fs[IndexPath(a)] = MalformedIndex

\* C5: when the index file of the actionID holds malformed content or an
\* outputID that is not hex, DiskCache.Get, no fault injected, returns a
\* miss and no error; it adds to getErrors, not to hits or misses; and Get
\* goes on to s3Get exactly as it does for an absent index file
C5_BadIndexIsMiss ==
    [][\A c \in Clients :
        /\ DiskGetOf(c) /\ faults' = faults
        /\ NonHexIndex(GetArg(c)) \/ MalformedIndexOf(GetArg(c))
        => GoesOnToRemote(c, "getErrors")]_vars

\* a Get on a bad index file has returned, counted once in getErrors
C5_Witness ==
    \E c \in Clients :
        /\ GetReturned(c)
        /\ NonHexIndex(ret[c].a) \/ MalformedIndexOf(ret[c].a)
        /\ dcounts.getErrors = 1 /\ dcounts.hits = 0 /\ dcounts.misses = 0
        /\ hist.s3.G >= 1

\* ---- concurrent Puts of one blob
\* every Put begun under outputID carried the bytes b, size their length
AllPut(outputID, b) ==
    /\ outputID \in DOMAIN hist.blobs
    /\ hist.blobs[outputID] = {[size |-> Len(b), body |-> b]}

\* C6: whenever every Put begun under an outputID carried the same bytes,
\* with size their length, the blob file o-<outputID>, once a rename has
\* made it, holds exactly those bytes, at every step of every interleaving
\* of the callers' creates, writes, renames and index writes
C6_BlobNeverTorn ==
    \A p \in FilePutArgs :
        AllPut(p.o, p.body) /\ Exists(fs, BlobPath(p.o))
        => fs[BlobPath(p.o)] = p.body

\* one caller's rename has made the blob while another caller, putting the
\* same blob, has written part of its temporary file
C6_Witness ==
    \E p \in FilePutArgs, c \in Clients :
        /\ AllPut(p.o, p.body) /\ Exists(fs, BlobPath(p.o))
        /\ fs[BlobPath(p.o)] = p.body
        /\ pc[c] = "f_copy" /\ loc[c].kind = "blob" /\ loc[c].o = p.o
        /\ Len(fs[TempPath(BlobPath(p.o), c)]) > 0
        /\ Len(fs[TempPath(BlobPath(p.o), c)]) < p.size

\* ---- Put of size 0
\* caller c is inside c.diskCache.Put, called by its Put or by its Get
InDiskPut(c) == pc[c] \in {"dp_blob", "dp_index"}

\* on this step the c.diskCache.Put of caller c's Put returned
DiskPutOf(c) ==
    loc[c].op = "put" /\ InDiskPut(c) /\ pc'[c] \notin {"dp_blob", "dp_index"}

\* on this step caller c's Get, with what s3Get returned, came to the
\* started check of c.diskCache.Put
FillCheckOf(c) == pc[c] = "g_fill" /\ (pc'[c] # "g_fill" \/ proc' # proc)

\* on this step the c.diskCache.Put of caller c's Get returned
FillOf(c) ==
    loc[c].op = "get" /\ InDiskPut(c) /\ pc'[c] \notin {"dp_blob", "dp_index"}

\* what that Put was called with
PutArg(c) == loc[c].ref

EmptyAt(f, path) == Exists(f, path) /\ f[path] = <<>>

\* the bucket holds, under the key of actionID, an object with a non-empty
\* outputid and length 0
EmptyObject(actionID) ==
    /\ actionKey(actionID) \in DOMAIN remote
    /\ remote[actionKey(actionID)].len = 0
    /\ outputIDMetadataKey \in DOMAIN remote[actionKey(actionID)].meta
    /\ remote[actionKey(actionID)].meta[outputIDMetadataKey] # <<>>

\* no worker opens the blob of an item of size 0
C7_NeverOpened == \A w \in Workers : wpc[w] = "open" => witem[w].size # 0

C7_Steps ==
    \A c \in Clients, w \in Workers :
        /\ pc[c] = "idle" /\ pc'[c] = "dp_blob"
           => loc'[c].body = IF loc'[c].size = 0 THEN <<>> ELSE loc'[c].ref.b
        /\ pc[c] = "dp_blob" /\ pc'[c] # "dp_blob" /\ faults' = faults
           /\ loc[c].size = 0
           => pc'[c] = "dp_index" /\ EmptyAt(fs', BlobPath(loc[c].o))
        /\ DiskPutOf(c) /\ faults' = faults /\ PutArg(c).size = 0
           => /\ pc'[c] = "p_send" /\ loc'[c].size = 0
              /\ EmptyAt(fs', BlobPath(PutArg(c).o))
        /\ pc[c] = "p_send" /\ pc'[c] = "idle" /\ loc[c].size = 0
           => /\ ret'[c].err = NoErr
              /\ ret'[c].diskPath = BlobPath(loc[c].o)
              /\ EmptyAt(fs', ret'[c].diskPath)
        /\ wpc[w] = "put" /\ wpc'[w] # "put"
           => wpc'[w] = "putting" /\ witem'[w] = witem[w] /\ remote' = remote
        /\ wpc[w] = "putting" /\ wpc'[w] # "putting" /\ witem[w].size = 0
           /\ faults' = faults
           => /\ remote' = WriteFile(remote, actionKey(witem[w].actionID),
                               Object(<<>>, 0, MetaOf(witem[w].outputID)))
              /\ hist'.upFail = hist.upFail
        /\ S3GetOf(c) /\ faults' = faults /\ proc' = proc
           /\ EmptyObject(loc[c].a)
           => /\ pc'[c] = "g_fill" /\ loc'[c].a = loc[c].a
              /\ loc'[c].o =
                     remote[actionKey(loc[c].a)].meta[outputIDMetadataKey]
              /\ loc'[c].size = 0
        /\ FillCheckOf(c)
           => proc' = proc /\ pc'[c] = "dp_blob" /\ loc'[c] = loc[c]
        /\ FillOf(c) /\ faults' = faults /\ loc[c].size = 0
           => /\ ret'[c].err = NoErr /\ ret'[c].outputID = loc[c].o
              /\ ret'[c].a = loc[c].a
              /\ ret'[c].diskPath = BlobPath(loc[c].o)
              /\ EmptyAt(fs', BlobPath(loc[c].o))
              /\ Exists(fs', IndexPath(loc[c].a))
              /\ fs'[IndexPath(loc[c].a)] =
                     jsonMarshal(IndexEntryOf(loc[c].o, 0))

\* C7: a Put with size 0, no fault injected, succeeds whatever body is
\* supplied and leaves a file of length 0 at the path it returns; the worker
\* uploads its item with an empty body and content length 0 and never
\* opens the blob; and a Get that misses on disk and finds that object
\* returns it, having written an index entry of size 0 and a blob of
\* length 0
C7_SizeZero == []C7_NeverOpened /\ [][C7_Steps]_vars

\* a Put of size 0 was uploaded by a worker and a later Get, missing on
\* disk, has backfilled it from the bucket
C7_Witness ==
    \E c \in Clients :
        /\ GetReturned(c) /\ ret[c].err = NoErr /\ ret[c].outputID # <<>>
        /\ hist.s3.H >= 1
        /\ EmptyObject(ret[c].a)
        /\ [a |-> ret[c].a, o |-> ret[c].outputID, size |-> 0] \in hist.puts
        /\ EmptyAt(fs, ret[c].diskPath)
        /\ fs[IndexPath(ret[c].a)] = jsonMarshal(IndexEntryOf(ret[c].outputID, 0))

\* ---- counters
\* a tier's counters read exactly the calls tallied in t
Reads(cnt, t) ==
    /\ cnt.gets = t.G /\ cnt.hits = t.H /\ cnt.misses = t.M
    /\ cnt.puts = t.P /\ cnt.putErrors = t.E

Both(t, u) == [k \in DOMAIN t |-> t[k] + u[k]]

\* the calls of DiskCache.Put that have not returned
PutsUnderWay == Cardinality({c \in Clients : InDiskPut(c)})

\* the disk tier's calls: those that returned, by what they returned, and
\* the puts under way
DiskCalls == [hist.disk EXCEPT !.P = @ + PutsUnderWay]

\* the calls of s3Get and of s3Put made for Get and Put that GetObject or
\* PutObject has not answered
GetsAsked == Cardinality({c \in Clients : pc[c] = "g_wait"})

PutsAsked == Cardinality({w \in Workers : wpc[w] = "putting"})

\* those made by Start
ProbeGetsAsked == Cardinality({c \in Clients : pc[c] = "s_getting"})

ProbePutsAsked == Cardinality({c \in Clients : pc[c] = "s_putting"})

\* the remote tier's calls for Get and Put: those that returned, by what
\* they returned, and those under way
TrafficCalls ==
    [hist.s3 EXCEPT !.G = @ + GetsAsked, !.P = @ + PutsAsked]

\* the remote tier's calls, those of Start included
RemoteCalls ==
    [Both(hist.s3, hist.probe) EXCEPT
        !.G = @ + GetsAsked + ProbeGetsAsked,
        !.P = @ + PutsAsked + ProbePutsAsked]

\* C8 as the specification states it: in each tier, when no get of the
\* tier returned an error, gets, hits, misses, puts and putErrors read the
\* number of gets, of gets that returned a hit, of gets that returned a
\* miss, of puts and of failed puts, the remote tier counting only the calls
\* made for Get and Put
C8_CountsOnlyTraffic ==
    proc = "running" =>
        /\ hist.disk.X = 0 => Reads(dcounts, DiskCalls)
        /\ hist.s3.X = 0 => Reads(rcounts, TrafficCalls)

\* C8: in each tier, when no get of the tier returned an error, gets, hits,
\* puts and putErrors read the number of gets, of gets that returned a hit,
\* of puts and of failed puts; on the disk tier the gets that returned a
\* miss are misses + getErrors (a get of a bad index file returns a miss and
\* is counted in getErrors); the remote tier counts the probe put and the
\* probe get of Start along with the calls made for Get and Put
C8_Counters ==
    proc = "running" =>
        /\ hist.disk.X = 0
           => /\ dcounts.gets = hist.disk.G /\ dcounts.hits = hist.disk.H
              /\ dcounts.misses + dcounts.getErrors = hist.disk.M
              /\ dcounts.puts = DiskCalls.P
              /\ dcounts.putErrors = hist.disk.E
        /\ hist.s3.X = 0 /\ hist.probe.X = 0
           => /\ Reads(rcounts, RemoteCalls)
              /\ rcounts.getErrors = 0

\* gets of both tiers have hit and missed, puts of both tiers have
\* succeeded and failed, and a disk get was counted in getErrors
C8_Witness ==
    /\ proc = "running"
    /\ hist.disk.X = 0 /\ hist.s3.X = 0 /\ hist.probe.X = 0
    /\ dcounts.getErrors >= 1 /\ hist.disk.M >= 1
    /\ hist.s3.G >= 1 /\ hist.probe.G = 1 /\ hist.probe.P = 1
    /\ hist.s3.P >= 1 /\ hist.disk.P >= 1

\* ---- Start
StartSteps ==
    <<"call", "diskStart", "probePut", "probeGet", "sizeCheck", "spawn",
      "started">>

\* the step that ends Start at each of its failures, by the number of steps
\* done before it
StartFailures ==
    <<"diskStartFailed", "probePutFailed", "probeGetFailed", "sizeMismatch">>

ProbeFailures == {"probePutFailed", "probeGetFailed", "sizeMismatch"}

\* t is the steps of Start in their order, up to some step or up to a
\* failure
InStartOrder(t) ==
    \/ Len(t) <= Len(StartSteps) /\ t = SubSeq(StartSteps, 1, Len(t))
    \/ /\ Len(t) \in 2..5
       /\ SubSeq(t, 1, Len(t) - 1) = SubSeq(StartSteps, 1, Len(t) - 1)
       /\ t[Len(t)] = StartFailures[Len(t) - 1]

Spawned == \E w \in Workers : wpc[w] # "none"

ProbeFailed ==
    hist.trace # <<>> /\ hist.trace[Len(hist.trace)] \in ProbeFailures

\* C9: Start does its steps in the order disk tier start, probe put, probe
\* get, size check, worker spawn, mark started: a remote put is made only
\* with the disk tier started, a remote get only after the probe put
\* succeeded, workers run and the cache is started only after a probe get
\* that returned the length written; and when the probe put fails, the probe
\* get fails or the length differs, Start returns an error, the disk tier
\* is closed, no worker runs, the cache is not started and no Get or Put is
\* served from then on
C9_StartOrder ==
    /\ InStartOrder(hist.trace)
    /\ rcounts.puts >= 1 => Len(hist.trace) >= 2 /\ hist.trace[2] = "diskStart"
    /\ rcounts.gets >= 1 => Len(hist.trace) >= 3 /\ hist.trace[3] = "probePut"
    /\ Spawned => /\ Len(hist.trace) >= 6
                  /\ hist.probeSz = Len(probeStr)
                  /\ \A w \in Workers : wpc[w] # "none" <=> w <= nWorkers
    /\ started => hist.trace = StartSteps /\ Spawned
    /\ hist.disk # ZeroTally \/ hist.s3 # ZeroTally => started
    /\ ProbeFailed
       => /\ \E c \in Clients :
                 /\ pc[c] = "idle" /\ ret[c].op = "start"
                 /\ ret[c].err \in {"probeput", "probeget", "probesize"}
          /\ ~dstarted /\ ~started /\ ~Spawned
          /\ hist.disk = ZeroTally /\ hist.s3 = ZeroTally
          /\ \A c \in Clients : pc[c] = "idle"

\* Start has failed at the size check, a call made after it has ended the
\* process, and nothing was served
C9_Witness ==
    /\ hist.trace = <<"call", "diskStart", "probePut", "probeGet",
                      "sizeMismatch">>
    /\ ~dstarted /\ ~started /\ ~Spawned
    /\ proc = "fatal"

\* ---- replication failures and Put
\* on this step a worker discarded an item it could not open or upload
WorkerFailed ==
    /\ hist'.done = hist.done + 1
    /\ hist'.s3.P = hist.s3.P \/ hist'.s3.E = hist.s3.E + 1

\* a Put that has written the blob and the index sends its item as soon as
\* the queue has room or a worker is receiving, whatever uploads are under
\* way
C10_NeverWaitsForUpload ==
    \A c \in Clients :
        /\ proc = "running" /\ pc[c] = "p_send"
        /\ Len(work) < queueLen
           \/ \E w \in Workers : wpc[w] = "select" /\ work = <<>>
        => ENABLED PSend(c)

C10_Steps ==
    /\ \A c \in Clients :
          pc[c] = "p_send" /\ pc'[c] = "idle"
          => /\ ret'[c].op = "put" /\ ret'[c].err = NoErr
             /\ ret'[c].diskPath = BlobPath(loc[c].o)
             /\ remote' = remote /\ rcounts' = rcounts
    /\ WorkerFailed
       => UNCHANGED <<proc, dstarted, dcounts, fs, pc, loc, ret>>

\* C10: a Put whose disk write succeeded returns the blob's path and nil
\* error, without making the upload and without waiting for one; a worker
\* that cannot open the blob or whose upload fails changes neither the disk
\* tier nor what any caller has returned or will return
C10_PutIgnoresReplication ==
    []C10_NeverWaitsForUpload /\ [][C10_Steps]_vars

\* a Put has returned the blob's path and nil error, and the worker has
\* discarded its item: the bucket has no object for it
C10_Witness ==
    \E c \in Clients :
        /\ pc[c] = "idle" /\ ret[c].op = "put" /\ ret[c].err = NoErr
        /\ ret[c].diskPath = BlobPath(ret[c].ref.o)
        /\ Exists(fs, ret[c].diskPath)
        /\ hist.upFail /\ hist.done = hist.enq
        /\ actionKey(ret[c].a) \notin DOMAIN remote

\* ---- Get on a local hit
\* the index file of a holds a well-formed entry with the non-empty hex
\* outputID o
IndexHolds(a, o) ==
    /\ Exists(fs, IndexPath(a))
    /\ o # <<>> /\ hexDecodeOK(o)
    /\ \E n \in 0..1 : fs[IndexPath(a)] = jsonMarshal(IndexEntryOf(o, n))

OutputIDs == {p.o : p \in PutArgs}

\* C11: when the index file of actionID holds a valid entry (well formed,
\* its outputID non-empty hex), Get, no fault injected, returns in the step
\* of DiskCache.Get with that outputID, the path o-<outputID> and nil error,
\* and the bucket and the remote counters are as they were
C11_LocalHitLeavesRemote ==
    [][\A c \in Clients, o \in OutputIDs :
        DiskGetOf(c) /\ faults' = faults /\ IndexHolds(GetArg(c), o)
        => /\ proc' = proc /\ pc'[c] = "idle"
           /\ ret'[c].op = "get" /\ ret'[c].err = NoErr
           /\ ret'[c].outputID = o
           /\ ret'[c].diskPath = <<"o", "-">> \o o
           /\ remote' = remote /\ rcounts' = rcounts]_vars

\* a Get has returned the entry of the index file, the remote tier having
\* seen the probe only
C11_Witness ==
    \E c \in Clients :
        /\ GetReturned(c) /\ IndexHolds(ret[c].a, ret[c].outputID)
        /\ ret[c].diskPath = BlobPath(ret[c].outputID)
        /\ hist.disk.H >= 1 /\ hist.s3 = ZeroTally
        /\ rcounts.gets = 1 /\ rcounts.puts = 1

\* ---- Get on a remote hit
\* the bucket holds for actionID an object of outputID o whose length is
\* that of its body
RemoteHolds(actionID, o) ==
    /\ actionKey(actionID) \in DOMAIN remote
    /\ remote[actionKey(actionID)].meta = MetaOf(o)
    /\ o # <<>>
    /\ remote[actionKey(actionID)].len = Len(remote[actionKey(actionID)].body)

\* on this step caller c's Get, having missed on disk and found in the
\* bucket the object of outputID o, goes on to c.diskCache.Put of it
FillsFrom(c, o) ==
    LET obj == remote[actionKey(loc[c].a)]
    IN  /\ pc'[c] = "g_fill" /\ loc'[c].op = "get" /\ loc'[c].a = loc[c].a
        /\ loc'[c].o = o /\ loc'[c].size = obj.len
        /\ loc'[c].body = obj.body

\* on this step caller c's Get returns the object it found in the bucket,
\* the blob and the index entry written, and DiskCache.Get now hits on the
\* entry
Backfills(c) ==
    LET a == loc[c].a
        o == loc[c].o
    IN  /\ pc'[c] = "idle" /\ ret'[c].op = "get" /\ ret'[c].err = NoErr
        /\ ret'[c].a = a /\ ret'[c].outputID = o
        /\ ret'[c].diskPath = <<"o", "-">> \o o
        /\ Exists(fs', ret'[c].diskPath)
        /\ fs'[ret'[c].diskPath] = loc[c].body
        /\ Exists(fs', IndexPath(a))
        /\ fs'[IndexPath(a)] =
               jsonMarshal([v |-> 1, o |-> o, n |-> loc[c].size])
        /\ LocalHit(diskGet(fs', a, FALSE))
        /\ diskGet(fs', a, FALSE).outputID = o

\* on this step the c.diskCache.Put of caller c's Get returns, no fault
\* injected, what it was given as long as the size it was given
FillReturns(c) ==
    FillOf(c) /\ faults' = faults /\ loc[c].size = Len(loc[c].body)

\* on this step caller c's Get follows, with no call between, a Get of the
\* same actionID that returned an outputID
GetAgain(c) ==
    /\ DiskGetOf(c) /\ faults' = faults
    /\ ret[c].op = "get" /\ ret[c].a = GetArg(c)
    /\ ret[c].err = NoErr /\ ret[c].outputID # <<>>

\* C12 as the specification states it: a Get that misses on disk and finds
\* in the bucket an object with outputid metadata, and returns, has written
\* the blob and the index entry and returns the outputID and the blob's
\* path, and the next Get of the actionID hits on disk
C12_AnyMetadata ==
    [][\A c \in Clients, o \in OutputIDs :
        /\ /\ S3GetOf(c) /\ faults' = faults /\ proc' = proc
           /\ RemoteHolds(loc[c].a, o)
           => FillsFrom(c, o)
        /\ FillCheckOf(c)
           => proc' = proc /\ pc'[c] = "dp_blob" /\ loc'[c] = loc[c]
        /\ FillReturns(c) => Backfills(c)]_vars

\* C12: a Get that misses on disk and finds in the bucket an object whose
\* outputid metadata is non-empty hex, and returns, no fault injected, has
\* written the blob and the index entry and returns the outputID and the
\* blob's path; the next Get of the actionID returns the same outputID from
\* the disk tier, the bucket and the remote counters left as they were
C12_BackfillThenLocal ==
    [][\A c \in Clients, o \in OutputIDs :
        /\ /\ S3GetOf(c) /\ faults' = faults /\ proc' = proc
           /\ RemoteHolds(loc[c].a, o) /\ hexDecodeOK(o)
           => FillsFrom(c, o)
        /\ FillCheckOf(c)
           => proc' = proc /\ pc'[c] = "dp_blob" /\ loc'[c] = loc[c]
        /\ FillReturns(c) /\ hexDecodeOK(loc[c].o) => Backfills(c)
        /\ GetAgain(c) /\ hexDecodeOK(ret[c].outputID)
           => /\ pc'[c] = "idle" /\ ret'[c].err = NoErr
              /\ ret'[c].outputID = ret[c].outputID
              /\ ret'[c].diskPath = ret[c].diskPath
              /\ remote' = remote /\ rcounts' = rcounts]_vars

\* a Get was answered from the bucket and the Get after it from the disk
C12_Witness ==
    \E c \in Clients :
        /\ GetReturned(c) /\ ret[c].err = NoErr /\ ret[c].outputID # <<>>
        /\ hist.s3.H = 1 /\ hist.s3.G = 1
        /\ hist.disk.G = 2 /\ hist.disk.H = 1 /\ hist.disk.P = 1
        /\ RemoteHolds(ret[c].a, ret[c].outputID)
        /\ fs[ret[c].diskPath] = remote[actionKey(ret[c].a)].body

\* ---- remote objects without outputid metadata
\* the bucket holds for actionID an object whose metadata has no outputid,
\* or an empty one
RemoteLacksOutputID(actionID) ==
    /\ actionKey(actionID) \in DOMAIN remote
    /\ \/ remote[actionKey(actionID)].meta = NoMeta
       \/ remote[actionKey(actionID)].meta = MetaOf(<<>>)

\* C13: a Get that, after its local miss, finds in the bucket an object
\* without outputid metadata (absent or empty) returns an error and neither
\* outputID nor path; of the remote counters gets and getErrors go up by one
\* and no other changes; the cache directory, the disk tier's counters and
\* the bucket are left as they were
C13_NoMetadataIsError ==
    [][\A c \in Clients :
        /\ CountsTheGet(c)
        /\ S3GetOf(c) /\ faults' = faults /\ RemoteLacksOutputID(loc[c].a)
           => /\ proc' = proc /\ pc'[c] = "idle"
              /\ ret'[c].op = "get" /\ ret'[c].err # NoErr
              /\ ret'[c].outputID = <<>> /\ ret'[c].diskPath = <<>>
              /\ rcounts' = [rcounts EXCEPT !.getErrors = @ + 1]
              /\ fs' = fs /\ dcounts' = dcounts /\ remote' = remote]_vars

\* a Get returned the error for an object whose outputid metadata is empty,
\* uploaded by a Put with an empty outputID
C13_Witness ==
    \E c \in Clients :
        /\ GetReturned(c) /\ ret[c].err = "nometa"
        /\ RemoteLacksOutputID(ret[c].a)
        /\ remote[actionKey(ret[c].a)].meta = MetaOf(<<>>)
        /\ rcounts.getErrors = 1 /\ hist.s3.X = 1 /\ hist.disk.P = 1

\* ---- calls on a cache that is not started
\* no call is under way, and Start has not been called or has returned an
\* error
NotStarted ==
    /\ ~started /\ \A c \in Clients : pc[c] = "idle"
    /\ \/ hist.trace = <<>>
       \/ \E c \in Clients : ret[c].op = "start" /\ ret[c].err # NoErr

\* C14: a step taken on a cache whose Start has not been called or has
\* returned an error, other than a call of Start, is a Get, Put or Close
\* that ends the process at log.Fatal: no counter, no file, no object and
\* no queued item has changed, no worker has moved and nothing is returned
C14_FatalUnlessStarted ==
    [][NotStarted /\ (\A c \in Clients : pc'[c] # "s_disk")
        => /\ \E c \in Clients :
                /\ loc'[c].op \in {"get", "put", "close"}
                /\ loc[c].op \notin {"get", "put", "close"}
           /\ proc' = "fatal"
           /\ ret' = ret
           /\ UNCHANGED <<dstarted, dcounts, fs, started, rcounts, remote,
                          work, closed, wpc, witem, wbody, hist>>]_vars

\* the process has ended at log.Fatal in a Put on a cache whose Start had
\* returned the error of its probe
C14_Witness ==
    \E c \in Clients :
        /\ proc = "fatal" /\ ~started /\ pc[c] = "idle"
        /\ loc[c].op = "put"
        /\ ret[c].op = "start" /\ ret[c].err = "probeget"
        /\ ops = 1 /\ dcounts = ZeroCounts /\ work = <<>>

\* ---- each item is consumed once
\* the workers that hold an item
Busy == {w \in Workers : wpc[w] \in {"open", "put", "putting"}}

\* the Put an item was made by
PutOf(item) == [a |-> item.actionID, o |-> item.outputID, size |-> item.size]

\* every item sent is at one place: in the channel's buffer, in the hands of
\* one worker, or done with; and each is the item of a Put that returned
EachItemOnce ==
    /\ hist.enq = Len(work) + Cardinality(Busy) + hist.done
    /\ \A i \in 1..Len(work) : PutOf(work[i]) \in hist.puts
    /\ \A w \in Busy : PutOf(witem[w]) \in hist.puts
    /\ hist.s3.P <= hist.done
    /\ rcounts.puts = RemoteCalls.P

\* worker w takes an item on this step
Takes(w) == wpc[w] = "select" /\ wpc'[w] \in {"open", "put"}

\* worker w calls s3Put for its item on this step
Uploads(w) == wpc[w] = "put" /\ wpc'[w] # "put"

\* worker w is done with its item on this step
Drops(w) == wpc[w] \in {"open", "putting"} /\ wpc'[w] = "select"

\* C15: every item sent on the channel is buffered, held by one worker or
\* done with, never at two places; a step hands one item to one worker, from
\* the head of the buffer or from the sender; a worker that is done with an
\* item, uploaded or failed at its open or its upload, has made one s3Put
\* for it at most, holds no item, has put nothing back in the buffer and is
\* at its select again
C15_ItemsConsumedOnce ==
    /\ []EachItemOnce
    /\ [][\A w \in Workers :
            /\ Takes(w)
               => /\ \A v \in Workers \ {w} : wpc'[v] = wpc[v] /\ witem'[v] = witem[v]
                  /\ \/ work # <<>> /\ witem'[w] = Head(work) /\ work' = Tail(work)
                        /\ hist'.enq = hist.enq
                     \/ work = <<>> /\ work' = work /\ hist'.enq = hist.enq + 1
                        /\ PutOf(witem'[w]) \in hist'.puts
                  /\ hist'.done = hist.done /\ rcounts' = rcounts
            /\ Uploads(w)
               => /\ wpc'[w] = "putting" /\ witem' = witem
                  /\ work' = work /\ hist' = hist /\ remote' = remote
                  /\ rcounts'.puts = rcounts.puts + 1
            /\ wpc[w] = "putting" /\ wpc'[w] # "putting" => Drops(w)
            /\ Drops(w)
               => /\ work' = work /\ hist'.enq = hist.enq
                  /\ hist'.done = hist.done + 1
                  /\ witem'[w] = NoWork
                  /\ rcounts'.puts = rcounts.puts
                  /\ wpc[w] = "open" => remote' = remote
                  /\ \A v \in Workers \ {w} : wpc'[v] = wpc[v] /\ witem'[v] = witem[v]]_vars

\* the one worker has failed on an item, gone on to the next and uploaded
\* it; both are done with and nothing is left in the buffer
C15_Witness ==
    /\ nWorkers = 1 /\ hist.upFail
    /\ hist.enq = 2 /\ hist.done = 2 /\ work = <<>> /\ Busy = {}
    /\ hist.s3.P - hist.s3.E = 1
    /\ \E q \in hist.puts : actionKey(q.a) \in DOMAIN remote

\* ---- the probe object
\* Start's probe put has succeeded
ProbePutDone ==
    \E i \in 1..Len(hist.trace) : hist.trace[i] = "probePut"

\* the keys Get and Put use for the actionIDs
ActionKeys == {actionKey(a) : a \in ActionIDs}

\* C16: once Start's probe put has succeeded the bucket holds, under the key
\* <prefix>/_probe, an object whose body is that key; and that key is the key
\* of no actionID
C16_ProbeUnderPrefixProbe ==
    /\ ProbePutDone
       => /\ probeStr \in DOMAIN remote
          /\ remote[probeStr].body = probeStr
    /\ probeStr \notin ActionKeys

\* ---- local I/O failures
\* on this step c's Get had its read of the index file fail, and Get
\* returns an error, the disk tier's getErrors one higher
GetReturnsDiskError(c) ==
    DiskGetOf(c) /\ hist'.disk.X = hist.disk.X + 1
    => /\ pc'[c] = "idle" /\ ret'[c].op = "get" /\ ret'[c].err # NoErr
       /\ dcounts'.getErrors = dcounts.getErrors + 1
       /\ rcounts' = rcounts

\* on this step c's Put had its disk write fail, and Put returns an error,
\* the disk tier's putErrors one higher
PutReturnsDiskError(c) ==
    DiskPutOf(c) /\ hist'.disk.E = hist.disk.E + 1
    => /\ pc'[c] = "idle" /\ ret'[c].op = "put" /\ ret'[c].err # NoErr
       /\ dcounts'.putErrors = dcounts.putErrors + 1
       /\ work' = work /\ hist'.enq = hist.enq

\* C17: a Get whose read of the index file fails for a reason other than
\* absence returns the error, without a miss and without a remote read, and
\* a Put whose disk write fails returns the error; each failure adds one to
\* the disk tier's error counter
C17_LocalErrorsReturned ==
    [][\A c \in Clients :
        GetReturnsDiskError(c) /\ PutReturnsDiskError(c)]_vars

\* ---- Put returns
\* C18: on a fair scheduler, with every upload attempt returning, a Put that
\* has come to its send on the channel returns, whenever the context is
\* cancelled
C18_PutReturns ==
    \A c \in Clients : (pc[c] = "p_send") ~> (pc[c] = "idle")

\* ---- backpressure
\* the Puts that have returned and whose item is neither uploaded nor
\* discarded
InFlight == hist.enq - hist.done

\* C19: the channel buffers at most queueLen items and at most nWorkers
\* workers hold an item, so at most queueLen + nWorkers Puts have returned
\* with their item not yet uploaded or discarded; with queueLen 0 the step on
\* which a Put's send completes is the step on which a worker receives its
\* item
C19_Backpressure ==
    /\ [](/\ Len(work) <= queueLen
          /\ Cardinality(Busy) <= nWorkers
          /\ \A w \in Workers : w > nWorkers => wpc[w] = "none"
          /\ InFlight <= queueLen + nWorkers)
    /\ [][\A c \in Clients :
            queueLen = 0 /\ pc[c] = "p_send" /\ pc'[c] = "idle"
            => /\ work = <<>> /\ work' = <<>>
               /\ \E w \in Workers :
                    /\ Takes(w)
                    /\ witem'[w] = PutWork(loc[c].a, loc[c].o, loc[c].size,
                                           ret'[c].diskPath)]_vars

\* as many Puts as the bound allows have returned with their items pending:
\* one item in the buffer of capacity 1, one held by the one worker
C19_Witness ==
    /\ queueLen = 1 /\ nWorkers = 1
    /\ Len(work) = 1 /\ Cardinality(Busy) = 1
    /\ InFlight = queueLen + nWorkers
    /\ \E c \in Clients : pc[c] = "idle" /\ ret[c].op = "put" /\ ret[c].err = NoErr

\* ---- blob before index entry
\* every index file DiskCache.Get can read names a blob file that is there
IndexHasBlob ==
    \A a \in ActionIDs :
        Exists(fs, IndexPath(a)) /\ jsonValid(fs[IndexPath(a)])
        => Exists(fs, <<"o", "-">> \o jsonUnmarshal(fs[IndexPath(a)]).o)

\* the file at path is made, changed or removed on this step
Changed(path) ==
    \/ Exists(fs, path) # Exists(fs', path)
    \/ Exists(fs, path) /\ Exists(fs', path) /\ fs'[path] # fs[path]

\* the file at path holds data after this step
Holds(path, data) == Exists(fs', path) /\ fs'[path] = data

FileOutputIDs == {p.o : p \in FilePutArgs}

\* C20: in every state, those a kill of the process leaves included, an index
\* file that parses names a blob file that is there; an index file is made
\* or changed only by the rename of a Put's whole entry, the Put's blob file
\* there before that step; a blob file is made or changed only by the rename
\* of a Put's whole body or by a Put of size 0 making it empty; what is
\* partly written is under a temporary name
C20_BlobBeforeIndex ==
    /\ []IndexHasBlob
    /\ [][/\ \A a \in ActionIDs :
                Changed(IndexPath(a))
                => \E c \in Clients :
                     /\ pc[c] = "f_rename" /\ loc[c].kind = "index"
                     /\ loc[c].a = a
                     /\ Holds(IndexPath(a),
                              jsonMarshal([v |-> 1, o |-> loc[c].o,
                                           n |-> loc[c].size]))
                     /\ Exists(fs, <<"o", "-">> \o loc[c].o)
          /\ \A o \in FileOutputIDs :
                Changed(<<"o", "-">> \o o)
                => \E c \in Clients :
                     \/ /\ pc[c] = "f_rename" /\ loc[c].kind = "blob"
                        /\ loc[c].o = o
                        /\ Holds(<<"o", "-">> \o o, loc[c].body)
                     \/ /\ pc[c] = "idle" /\ pc'[c] = "f_create"
                        /\ loc'[c].o = o /\ loc'[c].size = 0
                        /\ Holds(<<"o", "-">> \o o, <<>>)]_vars

\* the process was killed after a Put's blob was renamed into place and
\* while its index entry was partly written under its temporary name: the
\* blob is there and no index file names it
C20_Witness ==
    \E c \in Clients :
        /\ proc = "crash"
        /\ pc[c] = "f_copy" /\ loc[c].kind = "index" /\ loc[c].size > 0
        /\ Exists(fs, BlobPath(loc[c].o))
        /\ fs[BlobPath(loc[c].o)] = loc[c].body
        /\ Len(fs[TempPath(IndexPath(loc[c].a), c)]) \in 1..(Len(loc[c].src) - 1)
        /\ \A a \in ActionIDs :
              Exists(fs, IndexPath(a)) /\ jsonValid(fs[IndexPath(a)])
              => jsonUnmarshal(fs[IndexPath(a)]).o # loc[c].o

\* ---- index entries and the length of their blobs
\* every index file that parses names a blob file whose length is the size
\* the entry records
IndexSizeIsBlobLength ==
    \A a \in ActionIDs :
        Exists(fs, IndexPath(a)) /\ jsonValid(fs[IndexPath(a)])
        => /\ Exists(fs, BlobPath(jsonUnmarshal(fs[IndexPath(a)]).o))
           /\ Len(fs[BlobPath(jsonUnmarshal(fs[IndexPath(a)]).o)])
                = jsonUnmarshal(fs[IndexPath(a)]).n

\* the blob files the index files name
ReferencedBlobs ==
    {BlobPath(jsonUnmarshal(fs[IndexPath(a)]).o) :
        a \in {b \in ActionIDs : /\ Exists(fs, IndexPath(b))
                                 /\ jsonValid(fs[IndexPath(b)])}}

\* C21: every index entry names a blob as long as the entry's size says; a
\* Put that fails because the bytes written are not as many as the declared
\* size leaves every index file, and every blob an index file names, as it
\* was
C21_SizeMismatchLeavesBlobs ==
    /\ []IndexSizeIsBlobLength
    /\ [][\A c \in Clients :
            DiskPutOf(c) /\ pc'[c] = "idle" /\ faults' = faults
            /\ ret'[c].err # NoErr
            => /\ \A a \in ActionIDs :
                    /\ Exists(fs', IndexPath(a)) = Exists(fs, IndexPath(a))
                    /\ Exists(fs, IndexPath(a))
                       => fs'[IndexPath(a)] = fs[IndexPath(a)]
               /\ \A b \in ReferencedBlobs :
                    Exists(fs', b) /\ fs'[b] = fs[b]]_vars

\* ---- what enqueues and what writes to the bucket
\* on this step an item is sent on the channel
Enqueues ==
    \/ hist'.enq # hist.enq
    \/ Len(work') > Len(work)
    \/ \E w \in Workers : Takes(w) /\ work = <<>>

\* on this step the bucket is written to, or s3Put is called
WritesRemote == remote' # remote \/ rcounts'.puts # rcounts.puts

\* C22: a Put whose disk write succeeds goes on to send one item and a Put
\* whose disk write fails returns an error and sends none; an item is sent
\* only by such a Put, one for each; the bucket is written only by a worker's
\* upload of an item and by the one probe put of Start: no step of Start, of
\* Close or of Get, its backfill of the disk tier included, sends an item or
\* writes to the bucket
C22_OnlyPutEnqueues ==
    /\ [](hist.probe.P <= 1 /\ hist.enq <= hist.disk.P - hist.disk.E)
    /\ [][/\ \A c \in Clients :
               /\ DiskPutOf(c)
                  => /\ IF hist'.disk.E = hist.disk.E
                        THEN pc'[c] = "p_send"
                        ELSE /\ pc'[c] = "idle" /\ ret'[c].op = "put"
                             /\ ret'[c].err # NoErr
                     /\ ~Enqueues /\ ~WritesRemote
               /\ pc[c] # "p_send" /\ pc'[c] = "p_send" => DiskPutOf(c)
               /\ pc[c] = "p_send" /\ pc'[c] # "p_send"
                  => /\ hist'.enq = hist.enq + 1
                     /\ pc'[c] = "idle" /\ ret'[c].op = "put"
                     /\ ret'[c].err = NoErr
               /\ pc[c] \in {"g_s3", "g_wait", "g_fill", "dp_blob",
                             "dp_index", "c_chan", "c_wait", "s_disk",
                             "s_get", "s_getting", "s_check", "s_spawn",
                             "s_mark"}
                  /\ pc'[c] # pc[c]
                  => ~Enqueues /\ ~WritesRemote
               /\ DiskGetOf(c) => ~Enqueues /\ ~WritesRemote
          /\ Enqueues
             => /\ hist'.enq = hist.enq + 1
                /\ \E c \in Clients : pc[c] = "p_send" /\ pc'[c] = "idle"
          /\ WritesRemote
             => \/ \E w \in Workers : Uploads(w)
                \/ \E w \in Workers : wpc[w] = "putting" /\ Drops(w)
                \/ \E c \in Clients :
                      /\ pc[c] \in {"s_put", "s_putting"}
                      /\ pc'[c] # pc[c] /\ hist.probe.P = 0]_vars

\* one Put's item was sent and uploaded, a second Put's disk write failed
\* and it returned the error: one item sent, two s3Puts made, the probe's and
\* the item's
C22_Witness ==
    \E c \in Clients :
        /\ pc[c] = "idle" /\ ret[c].op = "put" /\ ret[c].err # NoErr
        /\ hist.disk.P = 2 /\ hist.disk.E = 1
        /\ hist.enq = 1 /\ hist.done = 1 /\ work = <<>>
        /\ rcounts.puts = 2

\* ---- calls beside Close
\* a Put's send found the channel closed
SendOnClosed ==
    proc = "panic" /\ \E c \in Clients : pc[c] = "p_send" /\ closed

\* a call ended at log.Fatal while Close was under way, or a Get that had
\* begun before Close ended there at its backfill
FatalBesideClose ==
    /\ proc = "fatal"
    /\ \/ \E c \in Clients : pc[c] \in {"c_chan", "c_wait"}
       \/ \E c \in Clients : pc[c] = "g_fill"

\* C23: with Put and Get calls running beside the one Close call on a
\* started cache, no Put sends on the channel once it is closed and no call
\* ends at the fatal started check
C23_CallsBesideClose == ~SendOnClosed /\ ~FatalBesideClose

\* ---- remote hits of any duration
\* C24: a Get's remote read that finds an object with outputid metadata,
\* however long the read took, does not end the process, adds one to gets
\* and to hits, the object's length to totalGetBytes and the read's duration
\* to totalGetDur, and leaves the other remote counters as they were
C24_HitWhateverDuration ==
    [][\A c \in Clients, o \in OutputIDs :
        /\ CountsTheGet(c)
        /\ /\ S3GetOf(c) /\ faults' = faults
           /\ RemoteHolds(loc[c].a, o)
           => /\ proc' = proc
              /\ \E dur \in Durs :
                   rcounts' = [rcounts EXCEPT
                       !.hits = @ + 1,
                       !.totalGetBytes = @ + remote[actionKey(loc[c].a)].len,
                       !.totalGetDur = @ + dur]]_vars

\* ---- the not-found classification
\* errors of every kind: API errors and others, the codes with and without
\* a meaning to the classification, messages with and without the words
\* that matter
ErrorKinds ==
    {S3Err(api, code, msg) :
        api \in BOOLEAN,
        code \in {"NoSuchKey", "AccessDenied", "InternalError", "NotFound"},
        msg \in {<<"not", "found">>, <<"SignatureDoesNotMatch">>,
                 <<"Access", "Denied", "SignatureDoesNotMatch", "retry">>,
                 <<"NoSuchKey">>, <<"AccessDenied">>}}
    \cup {ErrNoSuchKey, ErrAccessDenied, ErrSignature, ErrInternal,
          ErrTransport, NoS3Err}

\* the classification as the specification words it
MissAsSpecified(e) ==
    /\ e.isErr /\ e.api
    /\ \/ e.code = "NoSuchKey"
       \/ /\ e.code = "AccessDenied"
          /\ \A i \in 1..Len(e.msg) : e.msg[i] # "SignatureDoesNotMatch"

\* C25: isS3NotFoundError takes for not found the API errors of code
\* NoSuchKey and those of code AccessDenied whose message has no
\* SignatureDoesNotMatch, and no other error and not the absence of one; a
\* Get whose GetObject gave an error taken for not found returns a miss and
\* adds one to gets and to misses and to no other remote counter, and one
\* whose GetObject gave any other error returns an error and adds one to
\* gets and to getErrors and to no other
C25_NotFoundClassification ==
    /\ [](\A e \in ErrorKinds : isS3NotFoundError(e) = MissAsSpecified(e))
    /\ [][\A c \in Clients :
            /\ CountsTheGet(c)
            /\ S3GetOf(c) /\ proc' = proc /\ hist'.answer.isErr
               => IF MissAsSpecified(hist'.answer)
                  THEN /\ rcounts' = [rcounts EXCEPT !.misses = @ + 1]
                       /\ ret'[c].err = NoErr /\ ret'[c].outputID = <<>>
                       /\ ret'[c].diskPath = <<>>
                  ELSE /\ rcounts' = [rcounts EXCEPT !.getErrors = @ + 1]
                       /\ ret'[c].err # NoErr]_vars

\* one Get's GetObject gave AccessDenied and the Get returned a miss, the
\* next one's gave AccessDenied with SignatureDoesNotMatch and it returned
\* an error
C25_Witness ==
    \E c \in Clients :
        /\ pc[c] = "idle" /\ ret[c].op = "get" /\ ret[c].err # NoErr
        /\ hist.answer = ErrSignature
        /\ hist.s3.M = 1 /\ hist.s3.X = 1
        /\ rcounts.misses = 1 /\ rcounts.getErrors = 1

====
